---- MODULE Spec2Model ----
(***************************************************************************)
(* DevKit Pro: the DDL diff engine (DiffEngine, global diffEngine), the   *)
(* Protocol Buffer pipeline (parseJSONForProtobuf, generateProtoMessage),  *)
(* the input type detector (detectInputType), the Protocol Buffer type     *)
(* mappers and the config generators (generateJSON, generateXML).          *)
(*                                                                         *)
(* Texts are modelled by their structure: a DDL text is a record naming    *)
(* what kind of text it is and, for a CREATE TABLE, its table name and its *)
(* column definitions; an output line is a record naming its kind and its  *)
(* parts; a column definition string is the sequence of its tokens.        *)
(* The detector and the config generators work on the characters of the   *)
(* text itself.                                                            *)
(***************************************************************************)
EXTENDS Integers, Sequences, FiniteSets, TLC

\* ------------------------------------------------------------------------
\* Bounds of the model
\* ------------------------------------------------------------------------
MaxFields == 2          \* column definitions in a CREATE TABLE users
MaxFieldsWide == 1      \* column definitions in a CREATE TABLE Users
MaxCalls == 3           \* generateDiff calls on the global instance (SpecSeq)
MaxDetectColumns == 2   \* column definitions in a text handed to the detector
MaxLines == 3           \* lines of a configuration text handed to the detector
MaxConfigKeys == 2      \* members of the root object of the data of a config conversion
MaxRounds == 2          \* conversions of a config text that is read back (SpecConfig)
MaxMermaidBlocks == 1   \* mermaid code blocks of a Markdown text
MaxRenders == 3         \* handleMarkdownRender calls (SpecMarkdown)
Wait == 2               \* the wait of debounce(func, wait), in clock ticks
MaxTime == 6            \* clock ticks of a run of the debounced function
MaxDebounceCalls == 3   \* calls of the debounced function
MaxPendingTimers == 2   \* pending timers of one kind of ImageLightbox
MaxZooms == 2           \* zoom calls on ImageLightbox
MaxExports == 3         \* runs of a MarkdownExporter export
MaxKeys == 2            \* members of the root object of a JSON text

\* ------------------------------------------------------------------------
\* Strings: String.prototype.toLowerCase over the model's alphabet
\* ------------------------------------------------------------------------
LowerTable ==
    [s \in {"ID", "INT", "Users", "NAME", "TEXT"} |->
        CASE s = "ID" -> "id"
          [] s = "INT" -> "int"
          [] s = "Users" -> "users"
          [] s = "NAME" -> "name"
          [] s = "TEXT" -> "text"]

toLowerCase(s) == IF s \in DOMAIN LowerTable THEN LowerTable[s] ELSE s

\* Array.prototype.map and filter over sequences
Map(f(_), seq) == [i \in 1..Len(seq) |-> f(seq[i])]

\* ------------------------------------------------------------------------
\* DDL texts
\* ------------------------------------------------------------------------
NoComment == "<none>"   \* the column definition has no COMMENT clause

Col(name, type, unsigned, notNull, autoInc, comment) ==
    [name |-> name, type |-> type, unsigned |-> unsigned, notNull |-> notNull,
     autoIncrement |-> autoInc, comment |-> comment, wellFormed |-> TRUE]

\* The column definitions of the CREATE TABLE texts with several columns:
\* a base column, the same column in the other letter case with an empty
\* COMMENT, the base column with another type, and two columns of other
\* names.
ListColumns ==
    { Col("id",    "int",  FALSE, FALSE, FALSE, NoComment),
      Col("ID",    "INT",  FALSE, FALSE, FALSE, ""),
      Col("id",    "text", FALSE, FALSE, FALSE, NoComment),
      Col("name",  "text", FALSE, TRUE,  FALSE, NoComment),
      Col("email", "text", FALSE, FALSE, FALSE, "x") }

\* All column definitions: those above, the base column with each further
\* attribute changed, and a line the parser cannot read.
Columns ==
    ListColumns \cup
    { Col("id",   "int",  TRUE,  FALSE, FALSE, NoComment),
      Col("id",   "int",  FALSE, TRUE,  FALSE, NoComment),
      Col("id",   "int",  FALSE, FALSE, TRUE,  NoComment),
      Col("id",   "int",  FALSE, FALSE, FALSE, "x"),
      [ Col("name", "", FALSE, FALSE, FALSE, NoComment) EXCEPT !.wellFormed = FALSE ] }

SeqsUpTo(S, n) == UNION { [1..k -> S] : k \in 0..n }

CreateTable(tableName, columns) ==
    [kind |-> "create", tableName |-> tableName, columns |-> columns]

\* What is not a CREATE TABLE text: a null/undefined argument, a value that
\* is not a string, the empty string, a string of white space, and a text
\* without CREATE TABLE.
OtherArg(kind) == [kind |-> kind, tableName |-> "", columns |-> << >>]

OtherArgs == { OtherArg(k) : k \in {"null", "number", "empty", "blank", "garbage"} }

DDLs ==
    { CreateTable("users", cs) : cs \in SeqsUpTo(ListColumns, MaxFields) }
      \cup { CreateTable("Users", cs) : cs \in SeqsUpTo(Columns, MaxFieldsWide) }
      \cup OtherArgs

\* ------------------------------------------------------------------------
\* The MySQL dialect parser (parsers/mysql-parser.js)
\* ------------------------------------------------------------------------
Undefined == "<undefined>"   \* reading a property the object does not have

Prop(obj, p) == IF p \in DOMAIN obj THEN obj[p] ELSE Undefined

\* One column definition to one Field; the comment property is set only
\* when the column carries a COMMENT clause.
parseColumn(col) ==
    [name |-> col.name, type |-> col.type, nullable |-> ~col.notNull,
     isPrimaryKey |-> FALSE, isAutoIncrement |-> col.autoIncrement,
     isUnsigned |-> col.unsigned]
      @@ (IF col.comment = NoComment THEN << >> ELSE [comment |-> col.comment])

IsWellFormed(col) == col.wellFormed

\* { tableName, fields } for a CREATE TABLE text, { error } for any other
\* text; a column the parser cannot read is left out of the field list.
parseMySQLDDL(ddl) ==
    IF ddl.kind = "create"
    THEN [tableName |-> ddl.tableName,
          fields |-> Map(parseColumn, SelectSeq(ddl.columns, IsWellFormed))]
    ELSE [error |-> "ParseError"]

\* ------------------------------------------------------------------------
\* DiffEngine
\* ------------------------------------------------------------------------
\* A line of the returned list: a comment line (msg names which) or an
\* ALTER TABLE statement (kind ADD, MODIFY or DROP).
Stmt(kind, msg, table, column, definition) ==
    [kind |-> kind, msg |-> msg, table |-> table, column |-> column,
     definition |-> definition]

CommentLine(msg, a, b) == Stmt("comment", msg, a, b, << >>)

\* JavaScript truthiness of a string-or-undefined value, and (v || '')
Truthy(v) == v \notin {Undefined, ""}

OrEmpty(v) == IF Truthy(v) THEN v ELSE ""

reconstructDefinition(field) ==
    << field.type >>
      \o (IF field.isUnsigned THEN << "UNSIGNED" >> ELSE << >>)
      \o (IF ~field.nullable THEN << "NOT NULL" >> ELSE << >>)
      \o (IF field.isAutoIncrement THEN << "AUTO_INCREMENT" >> ELSE << >>)
      \o (IF Truthy(Prop(field, "comment"))
          THEN << "COMMENT", field.comment >> ELSE << >>)

getRawDefinitionFromSource(field) == reconstructDefinition(field)

\* isDifferent comparing the type strings as written
isDifferentCaseSensitive(tField, sField) ==
    IF tField.type # sField.type THEN TRUE
    ELSE IF tField.nullable # sField.nullable THEN TRUE
    ELSE IF tField.isAutoIncrement # sField.isAutoIncrement THEN TRUE
    ELSE IF OrEmpty(Prop(tField, "comment")) # OrEmpty(Prop(sField, "comment")) THEN TRUE
    ELSE FALSE

isDifferent(tField, sField) ==
    IF toLowerCase(tField.type) # toLowerCase(sField.type) THEN TRUE
    ELSE IF tField.nullable # sField.nullable THEN TRUE
    ELSE IF tField.isAutoIncrement # sField.isAutoIncrement THEN TRUE
    ELSE IF OrEmpty(Prop(tField, "comment")) # OrEmpty(Prop(sField, "comment")) THEN TRUE
    ELSE FALSE

LowerNames(fields) == { toLowerCase(fields[i].name) : i \in 1..Len(fields) }

\* new Map(fields.map(f => [lower name, f])).get(key): a later field of the
\* same key replaces an earlier one; the index 0 stands for undefined.
MapGetIndex(fields, key) ==
    LET idx == { i \in 1..Len(fields) : toLowerCase(fields[i].name) = key }
    IN  IF idx = {} THEN 0 ELSE CHOOSE i \in idx : \A j \in idx : j <= i

\* checkNewColumns looking the source name up as written
checkNewColumnsCaseSensitive(stmts, tableName, targetFields, sourceFields) ==
    LET targetNames == LowerNames(targetFields)
        IsNew(sField) == sField.name \notin targetNames
        Add(sField) == Stmt("ADD", "", tableName, sField.name,
                            getRawDefinitionFromSource(sField))
    IN  stmts \o Map(Add, SelectSeq(sourceFields, IsNew))

checkNewColumns(stmts, tableName, targetFields, sourceFields) ==
    LET targetNames == LowerNames(targetFields)
        IsNew(sField) == toLowerCase(sField.name) \notin targetNames
        Add(sField) == Stmt("ADD", "", tableName, sField.name,
                            getRawDefinitionFromSource(sField))
    IN  stmts \o Map(Add, SelectSeq(sourceFields, IsNew))

\* checkModifiedColumns putting its statements in front of the list
checkModifiedColumnsUnshift(stmts, tableName, targetFields, sourceFields) ==
    LET IsModified(sField) ==
            LET t == MapGetIndex(targetFields, toLowerCase(sField.name))
            IN  t # 0 /\ isDifferent(targetFields[t], sField)
        Modify(sField) == Stmt("MODIFY", "", tableName, sField.name,
                               getRawDefinitionFromSource(sField))
    IN  Map(Modify, SelectSeq(sourceFields, IsModified)) \o stmts

checkModifiedColumns(stmts, tableName, targetFields, sourceFields) ==
    LET IsModified(sField) ==
            LET t == MapGetIndex(targetFields, toLowerCase(sField.name))
            IN  t # 0 /\ isDifferent(targetFields[t], sField)
        Modify(sField) == Stmt("MODIFY", "", tableName, sField.name,
                               getRawDefinitionFromSource(sField))
    IN  stmts \o Map(Modify, SelectSeq(sourceFields, IsModified))

\* checkRemovedColumns looking the target name up as written
checkRemovedColumnsCaseSensitive(stmts, tableName, targetFields, sourceFields) ==
    LET sourceNames == LowerNames(sourceFields)
        IsRemoved(tField) == tField.name \notin sourceNames
        Drop(tField) == Stmt("DROP", "", tableName, tField.name, << >>)
    IN  stmts \o Map(Drop, SelectSeq(targetFields, IsRemoved))

checkRemovedColumns(stmts, tableName, targetFields, sourceFields) ==
    LET sourceNames == LowerNames(sourceFields)
        IsRemoved(tField) == toLowerCase(tField.name) \notin sourceNames
        Drop(tField) == Stmt("DROP", "", tableName, tField.name, << >>)
    IN  stmts \o Map(Drop, SelectSeq(targetFields, IsRemoved))

\* parseDDL: null for an argument that is falsy or blank and for a parser
\* error; a thrown TypeError for a truthy argument without trim(); else
\* the parser's result, each of whose field objects gets the property
\* fullDefinition.  parsed is the result as the parser returned it and
\* value the same object when parseDDL returns.
Null == [isNull |-> TRUE]

Enrich(field) == field @@ [fullDefinition |-> reconstructDefinition(field)]

parseDDL(ddl) ==
    IF ddl.kind \in {"null", "empty"}
    THEN [threw |-> FALSE, value |-> Null, parsed |-> Null]
    ELSE IF ddl.kind = "number"
    THEN [threw |-> TRUE, value |-> Null, parsed |-> Null]
    ELSE IF ddl.kind = "blank"
    THEN [threw |-> FALSE, value |-> Null, parsed |-> Null]
    ELSE LET result == parseMySQLDDL(ddl)
         IN  IF "error" \in DOMAIN result
             THEN [threw |-> FALSE, value |-> Null, parsed |-> result]
             ELSE [threw |-> FALSE,
                   value |-> [result EXCEPT !.fields = Map(Enrich, result.fields)],
                   parsed |-> result]

\* this.statements.length = 0: the array is emptied in place
ClearStatementsInPlace(heap, this) ==
    [heap |-> [heap EXCEPT ![this] = << >>], statements |-> this]

\* this.statements = []: the property is bound to a new array; heap is the
\* sequence of the arrays allocated so far and a reference is an index.
ResetStatements(heap, this) ==
    [heap |-> Append(heap, << >>), statements |-> Len(heap) + 1]

\* return [line]: a new array holding one comment line
ReturnLiteral(st, line, parsedObjs, objs) ==
    [heap |-> Append(st.heap, << line >>), statements |-> st.statements,
     threw |-> FALSE, ref |-> Len(st.heap) + 1,
     parsed |-> parsedObjs, objects |-> objs]

\* No catch: the exception leaves generateDiff
Rethrow(st, parsedObjs, objs) ==
    [heap |-> st.heap, statements |-> st.statements, threw |-> TRUE, ref |-> 0,
     parsed |-> parsedObjs, objects |-> objs]

\* catch (e) { return [`-- Diff ...: ${e.message}`]; }
CatchError(st, parsedObjs, objs) ==
    ReturnLiteral(st, CommentLine("diff error", "", ""), parsedObjs, objs)

\* const tableName = source.tableName
SourceTableName(target, source) == source.tableName

\* const tableName = target.tableName
AlterTableName(target, source) == target.tableName

\* The body of the try block once both texts are parsed.
DiffParsed(st, target, source, parsedObjs, objs) ==
    LET s0 == IF target.tableName # source.tableName
              THEN << CommentLine("table names differ", target.tableName, source.tableName),
                      CommentLine("assuming table", target.tableName, "") >>
              ELSE << >>
        tableName == AlterTableName(target, source)
        s1 == checkNewColumns(s0, tableName, target.fields, source.fields)
        s2 == checkModifiedColumns(s1, tableName, target.fields, source.fields)
        s3 == checkRemovedColumns(s2, tableName, target.fields, source.fields)
        h  == [st.heap EXCEPT ![st.statements] = @ \o s3]
        pushed == [heap |-> h, statements |-> st.statements]
    IN  IF Len(h[st.statements]) = 0
        THEN ReturnLiteral(pushed, CommentLine("no change", "", ""), parsedObjs, objs)
        ELSE [heap |-> h, statements |-> st.statements, threw |-> FALSE,
              ref |-> st.statements, parsed |-> parsedObjs, objects |-> objs]

\* generateDiff(targetDDL, sourceDDL) on the engine whose this.statements is
\* the array this of heap.  The outcome: the heap and this.statements
\* afterwards, whether the call threw, the array it returned, and the
\* schema objects it obtained from the parser (as returned, and now).
generateDiff(heap, this, targetDDL, sourceDDL) ==
    LET st == ResetStatements(heap, this)
        t  == parseDDL(targetDDL)
        s  == parseDDL(sourceDDL)
        tParsed == IF t.parsed = Null THEN << >> ELSE << t.parsed >>
        tObj    == IF t.parsed = Null THEN << >>
                   ELSE IF t.value = Null THEN << t.parsed >> ELSE << t.value >>
        sParsed == IF s.parsed = Null THEN << >> ELSE << s.parsed >>
        sObj    == IF s.parsed = Null THEN << >>
                   ELSE IF s.value = Null THEN << s.parsed >> ELSE << s.value >>
    IN  IF t.threw
        THEN CatchError(st, << >>, << >>)
        ELSE IF s.threw
        THEN CatchError(st, tParsed, tObj)
        ELSE IF t.value = Null \/ s.value = Null
        THEN ReturnLiteral(st, CommentLine("cannot parse", "", ""),
                           tParsed \o sParsed, tObj \o sObj)
        ELSE DiffParsed(st, t.value, s.value, tParsed \o sParsed, tObj \o sObj)

\* ------------------------------------------------------------------------
\* JSON texts
\* ------------------------------------------------------------------------
JVal(t, int, items, members) ==
    [t |-> t, int |-> int, items |-> items, members |-> members]

JNull == JVal("null", FALSE, << >>, << >>)

JBool == JVal("boolean", FALSE, << >>, << >>)

JInt == JVal("number", TRUE, << >>, << >>)

JFloat == JVal("number", FALSE, << >>, << >>)

JStr == JVal("string", FALSE, << >>, << >>)

JArr(items) == JVal("array", FALSE, items, << >>)

JObj(members) == JVal("object", FALSE, << >>, members)

Member(key, value) == [key |-> key, value |-> value]

JsonKeys == {"id", "userName", "profile"}

NestedKeys == JsonKeys \cup {"tags"}

JsonValues ==
    { JNull, JBool, JInt, JFloat, JStr,
      JArr(<< >>), JArr(<< JNull, JStr >>),
      JArr(<< JArr(<< JInt >>) >>),
      JObj(<< Member("id", JInt) >>),
      JArr(<< JObj(<< Member("userName", JStr), Member("tags", JArr(<< JFloat >>)) >>) >>) }

\* The root objects: members of distinct keys, in the order written
RootObjects ==
    { JObj(ms) : ms \in { m \in SeqsUpTo({ Member(k, v) : k \in JsonKeys, v \in JsonValues },
                                         MaxKeys) :
                            \A i, j \in 1..Len(m) : m[i].key = m[j].key => i = j } }

JsonTexts ==
    { [kind |-> "json", root |-> r] : r \in RootObjects }
      \cup { [kind |-> "invalid", root |-> JNull] }

NoJson == [kind |-> "none", root |-> JNull]

\* ------------------------------------------------------------------------
\* The JSON schema inferer (json-parser.js)
\* ------------------------------------------------------------------------
\* A Go type is the sequence of the tokens of its string: "[]" once per
\* array level, then the element type.
PascalTable ==
    [k \in NestedKeys |->
        CASE k = "id" -> "Id"
          [] k = "userName" -> "UserName"
          [] k = "tags" -> "Tags"
          [] k = "profile" -> "Profile"]

FirstNonNull(items) ==
    LET idx == { i \in 1..Len(items) : items[i].t # "null" }
    IN  IF idx = {} THEN JNull ELSE items[CHOOSE i \in idx : \A j \in idx : i <= j]

RECURSIVE SeqConcat(_)
SeqConcat(seqs) == IF seqs = << >> THEN << >> ELSE Head(seqs) \o SeqConcat(Tail(seqs))

\* The type of the value of key and the named nested schemas it registers,
\* depth first
RECURSIVE inferType(_, _)
inferType(key, value) ==
    CASE value.t = "null" -> [goType |-> << "interface{}" >>, nested |-> << >>]
      [] value.t = "boolean" -> [goType |-> << "bool" >>, nested |-> << >>]
      [] value.t = "number" ->
            [goType |-> IF value.int THEN << "int" >> ELSE << "float64" >>,
             nested |-> << >>]
      [] value.t = "string" -> [goType |-> << "string" >>, nested |-> << >>]
      [] value.t = "array" ->
            LET elem == inferType(key, FirstNonNull(value.items))
            IN  [goType |-> << "[]" >> \o elem.goType, nested |-> elem.nested]
      [] value.t = "object" ->
            LET inner == [i \in 1..Len(value.members) |->
                            inferType(value.members[i].key, value.members[i].value)]
                fields == [i \in 1..Len(value.members) |->
                            [name |-> value.members[i].key, goType |-> inner[i].goType]]
                Nested(r) == r.nested
            IN  [goType |-> << PascalTable[key] >>,
                 nested |-> << [name |-> PascalTable[key], fields |-> fields] >>
                              \o SeqConcat(Map(Nested, inner))]

\* { structName, fields, nestedStructs } or { error }
parseJSON(jsonStr, structName) ==
    IF jsonStr.kind # "json" THEN [error |-> "ParseError"]
    ELSE LET ms == jsonStr.root.members
             inner == [i \in 1..Len(ms) |-> inferType(ms[i].key, ms[i].value)]
             Nested(r) == r.nested
         IN  [structName |-> structName,
              fields |-> [i \in 1..Len(ms) |->
                            [name |-> ms[i].key, goType |-> inner[i].goType]],
              nestedStructs |-> SeqConcat(Map(Nested, inner))]

\* ------------------------------------------------------------------------
\* Protocol Buffer parser
\* ------------------------------------------------------------------------
\* obj.p = v for each property of props: set or overwritten
Assign(obj, props) == props @@ obj

\* addProtobufMetadata that also strips the "[]" prefix from goType itself
addProtobufMetadataCleaningGoType(fields, startNumber) ==
    [i \in 1..Len(fields) |->
        LET field == fields[i]
            isRepeated == Head(field.goType) = "[]"
        IN  Assign(field,
                   [protoFieldNumber |-> startNumber + (i - 1),
                    isRepeated |-> isRepeated,
                    goType |-> IF isRepeated THEN Tail(field.goType) ELSE field.goType,
                    protoElementType |-> IF isRepeated THEN Tail(field.goType)
                                         ELSE field.goType])]

addProtobufMetadata(fields, startNumber) ==
    [i \in 1..Len(fields) |->
        LET field == fields[i]
            isRepeated == Head(field.goType) = "[]"
        IN  Assign(field,
                   [protoFieldNumber |-> startNumber + (i - 1),
                    isRepeated |-> isRepeated,
                    protoElementType |-> IF isRepeated THEN Tail(field.goType)
                                         ELSE field.goType])]

\* parseJSONForProtobuf that numbers the fields of the nested messages on
\* from the fields of the main message
parseJSONForProtobufNumberingOn(jsonStr, messageName) ==
    LET result == parseJSON(jsonStr, messageName)
    IN  IF "error" \in DOMAIN result
        THEN [value |-> result, parsed |-> result]
        ELSE [value |->
                [result EXCEPT
                    !.fields = addProtobufMetadata(result.fields, 1),
                    !.nestedStructs =
                        [n \in 1..Len(result.nestedStructs) |->
                            [result.nestedStructs[n] EXCEPT
                                !.fields = addProtobufMetadata(@, Len(result.fields) + 1)]]],
              parsed |-> result]

\* parsed is the parser's result as returned, value the same object when
\* parseJSONForProtobuf returns.
parseJSONForProtobuf(jsonStr, messageName) ==
    LET result == parseJSON(jsonStr, messageName)
    IN  IF "error" \in DOMAIN result
        THEN [value |-> result, parsed |-> result]
        ELSE [value |->
                [result EXCEPT
                    !.fields = addProtobufMetadata(result.fields, 1),
                    !.nestedStructs =
                        [n \in 1..Len(result.nestedStructs) |->
                            [result.nestedStructs[n] EXCEPT
                                !.fields = addProtobufMetadata(@, 1)]]],
              parsed |-> result]

\* ------------------------------------------------------------------------
\* Protocol Buffer message generator
\* ------------------------------------------------------------------------
\* A line of the generated text.  type is the sequence of the words of the
\* field type, typeWidth and nameWidth the widths the type and the name are
\* padded to.
Line(indent, kind, name, type, number, typeWidth, nameWidth) ==
    [indent |-> indent, kind |-> kind, name |-> name, type |-> type,
     number |-> number, typeWidth |-> typeWidth, nameWidth |-> nameWidth]

PlainLine(kind, name) == Line(0, kind, name, << >>, 0, 0, 0)

RECURSIVE Str(_)
Str(tokens) == IF tokens = << >> THEN "" ELSE Head(tokens) \o Str(Tail(tokens))

\* const { p = value } = options: the default stands in for a property that
\* is undefined
OptionOr(options, p, value) ==
    IF Prop(options, p) # Undefined THEN options[p] ELSE value

\* mapTypeToProtobuf without the entry of 'interface{}' in typeMap
mapTypeToProtobufNoFallback(goType, options) ==
    LET key == Str(goType)
    IN  CASE key = "string" -> "string"
          [] key = "int" -> OptionOr(options, "numericIntType", "int32")
          [] key = "int64" -> "int64"
          [] key = "int32" -> "int32"
          [] key = "float64" -> OptionOr(options, "numericFloatType", "float")
          [] key = "float32" -> "float"
          [] key = "bool" -> "bool"
          [] OTHER -> key

mapTypeToProtobuf(goType, options) ==
    LET key == Str(goType)
    IN  CASE key = "string" -> "string"
          [] key = "int" -> OptionOr(options, "numericIntType", "int32")
          [] key = "int64" -> "int64"
          [] key = "int32" -> "int32"
          [] key = "float64" -> OptionOr(options, "numericFloatType", "float")
          [] key = "float32" -> "float"
          [] key = "bool" -> "bool"
          [] key = "interface{}" -> "string"
          [] OTHER -> key

formatFieldType(field, options) ==
    IF "isRepeated" \in DOMAIN field /\ field.isRepeated
    THEN << "repeated", mapTypeToProtobuf(field.protoElementType, options) >>
    ELSE << mapTypeToProtobuf(field.goType, options) >>

\* Length of the type string: its words joined by one space
TypeLen(type) == IF Len(type) = 2 THEN Len(type[1]) + 1 + Len(type[2]) ELSE Len(type[1])

MaxOf(S) == IF S = {} THEN 0 ELSE CHOOSE m \in S : \A n \in S : n <= m

\* '  ' + line for every line of nestedCode.split('\n'): the text ends
\* with a newline, so the last piece is an empty one
IndentNested(nestedCode) ==
    [k \in 1..(Len(nestedCode) + 1) |->
        IF k <= Len(nestedCode)
        THEN [nestedCode[k] EXCEPT !.indent = @ + 2]
        ELSE Line(2, "blank", "", << >>, 0, 0, 0)]

FieldName(field) ==
    IF Truthy(Prop(field, "jsonName")) THEN field.jsonName ELSE field.name

RECURSIVE generateMessage(_, _)
generateMessage(messageData, options) ==
    LET name == messageData.name
        fields == messageData.fields
        nestedStructs == IF "nestedStructs" \in DOMAIN messageData
                         THEN messageData.nestedStructs ELSE << >>
        Inline(nested) == IndentNested(generateMessage(nested, options))
        nestedLines == IF options.nestedMode = "inline"
                       THEN SeqConcat(Map(Inline, nestedStructs)) ELSE << >>
        protoTypes == [i \in 1..Len(fields) |-> formatFieldType(fields[i], options)]
        fieldNames == [i \in 1..Len(fields) |-> FieldName(fields[i])]
        maxTypeLen == MaxOf({ TypeLen(protoTypes[i]) : i \in 1..Len(fields) })
        maxNameLen == MaxOf({ Len(fieldNames[i]) : i \in 1..Len(fields) })
        fieldLines == [i \in 1..Len(fields) |->
                        Line(2, "field", fieldNames[i], protoTypes[i],
                             IF "protoFieldNumber" \in DOMAIN fields[i]
                                  /\ fields[i].protoFieldNumber # 0
                             THEN fields[i].protoFieldNumber ELSE i,
                             maxTypeLen, maxNameLen)]
    IN  << PlainLine("comment", name), PlainLine("open", name) >>
          \o nestedLines \o fieldLines \o << PlainLine("close", "") >>

\* generateProtoMessage that emits the nested messages at top level in
\* either mode
generateProtoMessageAlwaysSeparate(parsedData, options) ==
    LET messageName == IF options.messageName # Undefined THEN options.messageName
                       ELSE IF Truthy(Prop(parsedData, "structName"))
                       THEN parsedData.structName
                       ELSE "Message"
        Separate(nested) ==
            generateMessage(nested, [options EXCEPT !.nestedMode = "separate"])
              \o << PlainLine("blank", "") >>
    IN  << PlainLine("syntax", options.syntax), PlainLine("blank", "") >>
          \o (IF options.packageName # ""
              THEN << PlainLine("package", options.packageName), PlainLine("blank", "") >>
              ELSE << >>)
          \o SeqConcat(Map(Separate, parsedData.nestedStructs))
          \o generateMessage(
                [name |-> messageName, fields |-> parsedData.fields,
                 nestedStructs |-> IF options.nestedMode = "inline"
                                   THEN parsedData.nestedStructs ELSE << >>],
                options)

generateProtoMessage(parsedData, options) ==
    LET messageName == IF options.messageName # Undefined THEN options.messageName
                       ELSE IF Truthy(Prop(parsedData, "structName"))
                       THEN parsedData.structName
                       ELSE "Message"
        Separate(nested) ==
            generateMessage(nested, [options EXCEPT !.nestedMode = "separate"])
              \o << PlainLine("blank", "") >>
    IN  << PlainLine("syntax", options.syntax), PlainLine("blank", "") >>
          \o (IF options.packageName # ""
              THEN << PlainLine("package", options.packageName), PlainLine("blank", "") >>
              ELSE << >>)
          \o (IF options.nestedMode = "separate"
              THEN SeqConcat(Map(Separate, parsedData.nestedStructs)) ELSE << >>)
          \o generateMessage(
                [name |-> messageName, fields |-> parsedData.fields,
                 nestedStructs |-> IF options.nestedMode = "inline"
                                   THEN parsedData.nestedStructs ELSE << >>],
                options)

ProtoOptions ==
    [messageName : {"Message", Undefined}, nestedMode : {"inline", "separate"},
     packageName : {"model"}, syntax : {"proto3"},
     numericIntType : {"int32", "int64"}, numericFloatType : {"float", "double"}]

\* ------------------------------------------------------------------------
\* Protocol Buffer type mapper of JSON types
\* ------------------------------------------------------------------------
\* mapJSONTypeToProtobuf whose default case returns 'string'
mapJSONTypeToProtobufDefaultString(jsonType, options) ==
    CASE jsonType = "string" -> "string"
      [] jsonType = "int" -> OptionOr(options, "numericIntType", "int32")
      [] jsonType \in {"float", "number"} -> OptionOr(options, "numericFloatType", "float")
      [] jsonType = "boolean" -> "bool"
      [] jsonType = "null" -> "string"
      [] jsonType = "array" -> "repeated"
      [] jsonType = "object" -> "message"
      [] OTHER -> "string"

mapJSONTypeToProtobuf(jsonType, options) ==
    CASE jsonType = "string" -> "string"
      [] jsonType = "int" -> OptionOr(options, "numericIntType", "int32")
      [] jsonType \in {"float", "number"} -> OptionOr(options, "numericFloatType", "float")
      [] jsonType = "boolean" -> "bool"
      [] jsonType = "null" -> "string"
      [] jsonType = "array" -> "repeated"
      [] jsonType = "object" -> "message"
      [] OTHER -> jsonType

\* integers and floats of getProtobufNumericTypes, and a property left out
MapperOptions ==
    [numericIntType : {"int32", "int64", "sint32", "uint64", Undefined},
     numericFloatType : {"float", "double", Undefined}]

\* the type tokens of the JSON type mapper, the Go types of the inferer,
\* names of nested schemas and tokens neither mapper has an entry for
TypeTokens ==
    { "string", "int", "float", "number", "boolean", "null", "array", "object",
      "int64", "int32", "float64", "float32", "bool", "interface{}",
      "Profile", "UserName", "uint8", "bytes", "date", "[]int" }

\* ------------------------------------------------------------------------
\* Input type detector: detectInputType over character strings
\* ------------------------------------------------------------------------
UpperCaseLetters ==
    << "A", "B", "C", "D", "E", "F", "G", "H", "I", "J", "K", "L", "M",
       "N", "O", "P", "Q", "R", "S", "T", "U", "V", "W", "X", "Y", "Z" >>

LowerCaseLetters ==
    << "a", "b", "c", "d", "e", "f", "g", "h", "i", "j", "k", "l", "m",
       "n", "o", "p", "q", "r", "s", "t", "u", "v", "w", "x", "y", "z" >>

Digits == {"0", "1", "2", "3", "4", "5", "6", "7", "8", "9"}

\* s[i - 1] of the source (positions count from 1); "" outside the string
CharAt(s, i) == IF i \in 1..Len(s) THEN SubSeq(s, i, i) ELSE ""

\* [a-zA-Z]
IsLetter(c) == \E i \in 1..26 : c = UpperCaseLetters[i] \/ c = LowerCaseLetters[i]

\* [a-zA-Z_]
IsNameStart(c) == IsLetter(c) \/ c = "_"

\* \w, which is [a-zA-Z0-9_]
IsWordChar(c) == IsNameStart(c) \/ c \in Digits

\* [a-zA-Z0-9_.-]
IsSectionChar(c) == IsWordChar(c) \/ c \in {".", "-"}

\* \s
IsSpace(c) == c \in {" ", "\t", "\n", "\r"}

\* the characters . does not match and that $ and ^ stop at under the m flag
IsLineTerminator(c) == c \in {"\n", "\r"}

\* the i flag: both sides of the comparison are folded to lower case
FoldChar(c) ==
    IF \E i \in 1..26 : c = UpperCaseLetters[i]
    THEN LowerCaseLetters[CHOOSE i \in 1..26 : c = UpperCaseLetters[i]]
    ELSE c

RECURSIVE IgnoreCase(_)
IgnoreCase(s) == IF s = "" THEN "" ELSE FoldChar(Head(s)) \o IgnoreCase(Tail(s))

StartsWithAt(s, i, sub) ==
    /\ i >= 1
    /\ i + Len(sub) - 1 <= Len(s)
    /\ SubSeq(s, i, i + Len(sub) - 1) = sub

\* String.prototype.includes, startsWith, endsWith
includes(s, sub) == \E i \in 1..Len(s) : StartsWithAt(s, i, sub)

startsWith(s, sub) == StartsWithAt(s, 1, sub)

endsWith(s, sub) == StartsWithAt(s, Len(s) - Len(sub) + 1, sub)

\* String.prototype.trim
trim(s) ==
    LET keep == { i \in 1..Len(s) : ~IsSpace(CharAt(s, i)) }
    IN  IF keep = {} THEN ""
        ELSE SubSeq(s, CHOOSE i \in keep : \A j \in keep : i <= j,
                       CHOOSE i \in keep : \A j \in keep : i >= j)

\* the positions a \s* starting at i can stop at
AfterSpaces(s, i) ==
    { j \in i..(Len(s) + 1) : \A k \in i..(j - 1) : IsSpace(CharAt(s, k)) }

\* the position a greedy run of characters of class In(_) starting at i stops at
RunEnd(In(_), s, i) ==
    IF i > Len(s) THEN i
    ELSE CHOOSE j \in i..(Len(s) + 1) :
            /\ \A k \in i..(j - 1) : In(CharAt(s, k))
            /\ ~In(CharAt(s, j))

\* the positions ^ matches at under the m flag
LineStarts(s) == { i \in 1..Len(s) : i = 1 \/ IsLineTerminator(CharAt(s, i - 1)) }

\* there is a character for .+ at i (and .+$ then runs to the end of the line)
RestOfLine(s, i) == i <= Len(s) /\ ~IsLineTerminator(CharAt(s, i))

\* $ under the m flag
AtLineEnd(s, i) == i > Len(s) \/ IsLineTerminator(CharAt(s, i))

\* /CREATE\s+TABLE/i
CreateTablePattern(s) ==
    LET l == IgnoreCase(s)
    IN  \E i \in 1..Len(l) :
            /\ StartsWithAt(l, i, "create")
            /\ \E j \in AfterSpaces(l, i + 6) : j > i + 6 /\ StartsWithAt(l, j, "table")

\* /SERIAL|BIGSERIAL|UUID|TEXT\[\]|JSONB|TIMESTAMPTZ/i
PostgresPattern(s) ==
    \E marker \in {"serial", "bigserial", "uuid", "text[]", "jsonb", "timestamptz"} :
        includes(IgnoreCase(s), marker)

\* /AUTO_INCREMENT|TINYINT|COMMENT\s*'/i
MySQLPattern(s) ==
    LET l == IgnoreCase(s)
    IN  \/ includes(l, "auto_increment")
        \/ includes(l, "tinyint")
        \/ \E i \in 1..Len(l) :
              /\ StartsWithAt(l, i, "comment")
              /\ \E j \in AfterSpaces(l, i + 7) : CharAt(l, j) = "'"

\* /AUTOINCREMENT(?!\w)/i
SQLitePattern(s) ==
    LET l == IgnoreCase(s)
    IN  \E i \in 1..Len(l) :
            StartsWithAt(l, i, "autoincrement") /\ ~IsWordChar(CharAt(l, i + 13))

\* /^[a-zA-Z_][a-zA-Z0-9_]*:\s*.+$/m
yamlPattern(s) ==
    \E i \in LineStarts(s) :
        /\ IsNameStart(CharAt(s, i))
        /\ LET j == RunEnd(IsWordChar, s, i + 1)
           IN  /\ CharAt(s, j) = ":"
               /\ \E k \in AfterSpaces(s, j + 1) : RestOfLine(s, k)

\* /^\s*-\s+.+$/m
yamlListPattern(s) ==
    \E i \in LineStarts(s) : \E j \in AfterSpaces(s, i) :
        /\ CharAt(s, j) = "-"
        /\ \E k \in AfterSpaces(s, j + 1) : k > j + 1 /\ RestOfLine(s, k)

\* /^\s*\[[a-zA-Z_][a-zA-Z0-9_.-]*\]\s*$/m
TomlSectionPattern(s) ==
    \E i \in LineStarts(s) : \E j \in AfterSpaces(s, i) :
        /\ CharAt(s, j) = "["
        /\ IsNameStart(CharAt(s, j + 1))
        /\ LET e == RunEnd(IsSectionChar, s, j + 2)
           IN  /\ CharAt(s, e) = "]"
               /\ \E k \in AfterSpaces(s, e + 1) : AtLineEnd(s, k)

\* /^[a-zA-Z_][a-zA-Z0-9_]*\s*=\s*.+$/m
TomlKeyValuePattern(s) ==
    \E i \in LineStarts(s) :
        /\ IsNameStart(CharAt(s, i))
        /\ \E k \in AfterSpaces(s, RunEnd(IsWordChar, s, i + 1)) :
              /\ CharAt(s, k) = "="
              /\ \E m \in AfterSpaces(s, k + 1) : RestOfLine(s, m)

\* /<\/[a-zA-Z]/
XmlClosingTagPattern(s) ==
    \E i \in 1..Len(s) : StartsWithAt(s, i, "</") /\ IsLetter(CharAt(s, i + 2))

\* JSON.parse: the grammar of a JSON text (objects, arrays, strings, numbers
\* without exponent, true, false, null). Each ...End is the position after
\* the construct that starts at i, or 0 where the text has none there.
IsJSONSpace(c) == c \in {" ", "\t", "\n", "\r"}

SkipJSONSpace(s, i) == RunEnd(IsJSONSpace, s, i)

RECURSIVE JSONStringEnd(_, _)
JSONStringEnd(s, i) ==
    LET c == CharAt(s, i)
    IN  IF c = "" \/ c \in {"\n", "\r", "\t"} THEN 0
        ELSE IF c = "\"" THEN i + 1
        ELSE IF c = "\\" THEN (IF CharAt(s, i + 1) \in {"\"", "\\", "/", "n", "r", "t", "b", "f"}
                               THEN JSONStringEnd(s, i + 2) ELSE 0)
        ELSE JSONStringEnd(s, i + 1)

IsDigit(c) == c \in Digits

JSONNumberEnd(s, i) ==
    LET d == IF CharAt(s, i) = "-" THEN i + 1 ELSE i
        e == RunEnd(IsDigit, s, d)
    IN  IF e = d \/ (CharAt(s, d) = "0" /\ e > d + 1) THEN 0
        ELSE IF CharAt(s, e) = "."
             THEN (IF RunEnd(IsDigit, s, e + 1) = e + 1 THEN 0 ELSE RunEnd(IsDigit, s, e + 1))
             ELSE e

RECURSIVE JSONValueEnd(_, _), JSONElementsEnd(_, _), JSONMembersEnd(_, _)
JSONValueEnd(s, i) ==
    LET c == CharAt(s, i)
    IN  IF c = "{" THEN
            (IF CharAt(s, SkipJSONSpace(s, i + 1)) = "}" THEN SkipJSONSpace(s, i + 1) + 1
             ELSE JSONMembersEnd(s, SkipJSONSpace(s, i + 1)))
        ELSE IF c = "[" THEN
            (IF CharAt(s, SkipJSONSpace(s, i + 1)) = "]" THEN SkipJSONSpace(s, i + 1) + 1
             ELSE JSONElementsEnd(s, SkipJSONSpace(s, i + 1)))
        ELSE IF c = "\"" THEN JSONStringEnd(s, i + 1)
        ELSE IF StartsWithAt(s, i, "true") \/ StartsWithAt(s, i, "null") THEN i + 4
        ELSE IF StartsWithAt(s, i, "false") THEN i + 5
        ELSE IF c = "" THEN 0
        ELSE JSONNumberEnd(s, i)

JSONElementsEnd(s, i) ==
    LET e == JSONValueEnd(s, i)
        j == SkipJSONSpace(s, e)
    IN  IF e = 0 THEN 0
        ELSE IF CharAt(s, j) = "]" THEN j + 1
        ELSE IF CharAt(s, j) = "," THEN JSONElementsEnd(s, SkipJSONSpace(s, j + 1))
        ELSE 0

JSONMembersEnd(s, i) ==
    LET k == IF CharAt(s, i) = "\"" THEN JSONStringEnd(s, i + 1) ELSE 0
        c == SkipJSONSpace(s, k)
        e == IF k # 0 /\ CharAt(s, c) = ":" THEN JSONValueEnd(s, SkipJSONSpace(s, c + 1)) ELSE 0
        j == SkipJSONSpace(s, e)
    IN  IF e = 0 THEN 0
        ELSE IF CharAt(s, j) = "}" THEN j + 1
        ELSE IF CharAt(s, j) = "," THEN JSONMembersEnd(s, SkipJSONSpace(s, j + 1))
        ELSE 0

\* typeof JSON.parse(s), "SyntaxError" where JSON.parse throws
JSONParseType(s) ==
    LET i == SkipJSONSpace(s, 1)
        e == JSONValueEnd(s, i)
    IN  IF s = "" \/ e = 0 \/ SkipJSONSpace(s, e) # Len(s) + 1 THEN "SyntaxError"
        ELSE IF CharAt(s, i) \in {"{", "["} THEN "object"
        ELSE IF StartsWithAt(s, i, "null") THEN "null"
        ELSE "scalar"

detectInputType(input) ==
    LET trimmed == trim(input)
    IN  IF CreateTablePattern(trimmed) THEN
            (IF PostgresPattern(trimmed) THEN "postgresql"
             ELSE IF MySQLPattern(trimmed) THEN "mysql"
             ELSE IF SQLitePattern(trimmed) THEN "sqlite"
             ELSE "mysql")
        ELSE IF JSONParseType(trimmed) = "object" THEN "json"
        ELSE IF /\ ~startsWith(trimmed, "{") /\ ~startsWith(trimmed, "[")
                /\ yamlPattern(trimmed) \/ yamlListPattern(trimmed)
                /\ ~includes(trimmed, "=") \/ includes(trimmed, ":")
             THEN "yaml"
        ELSE IF /\ TomlSectionPattern(trimmed) \/ TomlKeyValuePattern(trimmed)
                /\ includes(trimmed, "=") /\ ~includes(trimmed, ": ")
             THEN "toml"
        ELSE IF \/ startsWith(trimmed, "<?xml")
                \/ /\ startsWith(trimmed, "<") /\ endsWith(trimmed, ">")
                   /\ XmlClosingTagPattern(trimmed)
             THEN "xml"
        ELSE "unknown"

\* ------------------------------------------------------------------------
\* State
\* ------------------------------------------------------------------------
VARIABLES
    targetDDL,      \* first argument of the generateDiff call
    sourceDDL,      \* second argument of the generateDiff call
    pc,             \* "ready": the call is about to run; "done": it returned
    heap,           \* the arrays the engine allocated, by reference
    statements,     \* diffEngine.statements, a reference into heap
    result,         \* outcome of the last call: threw, ref (0: no call yet)
    returned,       \* per call so far: the reference returned and the list it held then
    parserReturned, \* schemas handed out by the parser in the last call, as returned
    schemaObjects,  \* the same schema objects as they are now
    calls,          \* number of generateDiff calls so far
    jsonInput,      \* the JSON text handed to parseJSONForProtobuf
    protoParsedData,\* what parseJSONForProtobuf returned, as returned
    protoCode,      \* the text generateProtoMessage returned
    protoOptions,   \* the options generateProtoMessage was called with
    input,          \* the text handed to detectInputType
    detectedType,   \* what detectInputType returned
    typeToken,      \* the type token handed to a Protocol Buffer type mapper
    mapperOptions,  \* the options handed to the type mapper
    mappedType,     \* what the type mapper returned
    configFormat,   \* the output format of a config conversion
    configIndent,   \* options.indent of the config generator
    configData,     \* the data the config generator is given
    configTexts,    \* the texts the config generator returned so far
    libraries,      \* a call of a public parse or generate function and the globals it finds
    converter,      \* the converter page: its editors, lastParsedData, lastGeneratedCode
    diffPage,       \* the diff page: its editors and the clipboard
    markdown,       \* the Markdown page: the input, the renders in flight, the preview
    debouncer,      \* a debounced function: its timer, the clock, the calls and the runs
    lightbox,       \* ImageLightbox: isOpen, scale, the content and the clean-up timers
    exporter,       \* a MarkdownExporter run: the wrapper, the overlay, the position
    formatter       \* autoFormatInput: isFormatting, the editor and the position

vars == << targetDDL, sourceDDL, pc, heap, statements, result, returned,
           parserReturned, schemaObjects, calls, jsonInput, protoParsedData,
           protoCode, protoOptions, input, detectedType, typeToken,
           mapperOptions, mappedType, configFormat, configIndent, configData,
           configTexts,
          libraries, converter, diffPage, markdown, debouncer, lightbox, exporter,
          formatter >>

diffVars == << targetDDL, sourceDDL, heap, statements, result, returned, calls >>

\* the state of the tools that work on a text of their own
detectVars == << input, detectedType >>

mapperVars == << typeToken, mapperOptions, mappedType >>

configVars == << configFormat, configIndent, configData, configTexts >>

\* the state of the pages and utilities of the application
appVars == << libraries, converter, diffPage, markdown, debouncer, lightbox, exporter,
              formatter >>

toolVars == << detectVars, mapperVars, configVars, appVars >>

NoResult == [threw |-> FALSE, ref |-> 0]

\* const diffEngine = new DiffEngine(): this.statements = []
EngineInit ==
    /\ heap = << << >> >>
    /\ statements = 1
    /\ result = NoResult
    /\ returned = << >>
    /\ parserReturned = << >>
    /\ schemaObjects = << >>
    /\ calls = 0

NoProto ==
    /\ jsonInput = NoJson
    /\ protoParsedData = Null
    /\ protoCode = << >>
    /\ protoOptions = Null

\* No text was handed to the other tools
DetectIdle ==
    /\ input = ""
    /\ detectedType = Undefined

MapperIdle ==
    /\ typeToken = Undefined
    /\ mapperOptions = Null
    /\ mappedType = Undefined

ConfigIdle ==
    /\ configFormat = Undefined
    /\ configIndent = 0
    /\ configData = Null
    /\ configTexts = << >>

\* No page or utility of the application is in use
AppIdle ==
    /\ libraries = Null
    /\ converter = Null
    /\ diffPage = Null
    /\ markdown = Null
    /\ debouncer = Null
    /\ lightbox = Null
    /\ exporter = Null
    /\ formatter = Null

ToolsIdle == DetectIdle /\ MapperIdle /\ ConfigIdle /\ AppIdle

\* The two DDL texts of a diff are given
InitDiff ==
    /\ targetDDL \in DDLs
    /\ sourceDDL \in DDLs
    /\ pc = "ready"
    /\ EngineInit
    /\ NoProto
    /\ ToolsIdle

\* The JSON text of a Protocol Buffer conversion is given
InitProto ==
    /\ targetDDL = OtherArg("empty")
    /\ sourceDDL = OtherArg("empty")
    /\ pc = "proto_ready"
    /\ EngineInit
    /\ jsonInput \in JsonTexts
    /\ protoParsedData = Null
    /\ protoCode = << >>
    /\ protoOptions = Null
    /\ ToolsIdle

Init == InitDiff \/ InitProto

RunGenerateDiff(t, s) ==
    LET out == generateDiff(heap, statements, t, s)
    IN  /\ heap' = out.heap
        /\ statements' = out.statements
        /\ result' = [threw |-> out.threw, ref |-> out.ref]
        /\ returned' = IF out.threw THEN returned
                       ELSE Append(returned, [ref |-> out.ref, list |-> out.heap[out.ref]])
        /\ parserReturned' = out.parsed
        /\ schemaObjects' = out.objects
        /\ calls' = calls + 1

\* diffEngine.generateDiff(targetDDL, sourceDDL)
GenerateDiff ==
    /\ pc = "ready"
    /\ RunGenerateDiff(targetDDL, sourceDDL)
    /\ pc' = "done"
    /\ UNCHANGED << targetDDL, sourceDDL, jsonInput, protoParsedData, protoCode,
                    protoOptions, toolVars >>

\* const protoParsedData = parseJSONForProtobuf(text, messageName)
ParseJSONForProtobuf ==
    /\ pc = "proto_ready"
    /\ LET out == parseJSONForProtobuf(jsonInput, "Message")
       IN  /\ parserReturned' = << out.parsed >>
           /\ schemaObjects' = << out.value >>
           /\ protoParsedData' = out.value
           /\ pc' = IF "error" \in DOMAIN out.value THEN "proto_failed"
                    ELSE "proto_parsed"
    /\ UNCHANGED << diffVars, jsonInput, protoCode, protoOptions, toolVars >>

\* generatedCode = generateProtoMessage(protoParsedData, protoOptions)
GenerateProtoMessage ==
    /\ pc = "proto_parsed"
    /\ \E options \in ProtoOptions :
          /\ protoCode' = generateProtoMessage(schemaObjects[1], options)
          /\ protoOptions' = options
    /\ pc' = "proto_done"
    /\ UNCHANGED << diffVars, jsonInput, protoParsedData, parserReturned, schemaObjects,
                    toolVars >>

Next == GenerateDiff \/ ParseJSONForProtobuf \/ GenerateProtoMessage

Spec == Init /\ [][Next]_vars

\* ------------------------------------------------------------------------
\* A sequence of calls on the one global instance
\* ------------------------------------------------------------------------
SeqDDLs ==
    { CreateTable("users", << Col("id", "int", FALSE, FALSE, FALSE, NoComment) >>),
      CreateTable("users", << Col("id", "text", FALSE, FALSE, FALSE, NoComment),
                              Col("name", "text", FALSE, TRUE, FALSE, NoComment) >>),
      CreateTable("Users", << Col("id", "int", FALSE, FALSE, FALSE, NoComment) >>),
      OtherArg("garbage") }

InitSeq ==
    /\ targetDDL = OtherArg("empty")
    /\ sourceDDL = OtherArg("empty")
    /\ pc = "idle"
    /\ EngineInit
    /\ NoProto
    /\ ToolsIdle

\* Any caller: diffEngine.generateDiff(t, s)
CallGenerateDiff ==
    /\ calls < MaxCalls
    /\ \E t \in SeqDDLs, s \in SeqDDLs :
          /\ targetDDL' = t
          /\ sourceDDL' = s
          /\ RunGenerateDiff(t, s)
    /\ pc' = "done"
    /\ UNCHANGED << jsonInput, protoParsedData, protoCode, protoOptions, toolVars >>

NextSeq == CallGenerateDiff

SpecSeq == InitSeq /\ [][NextSeq]_vars

\* The list the last call returned
ResultList == IF result.ref = 0 THEN << >> ELSE heap[result.ref]

\* ------------------------------------------------------------------------
\* Vocabulary of the properties of generateDiff
\* ------------------------------------------------------------------------
\* Both texts parsed: the call reached the column comparison.
BothParsed ==
    /\ pc = "done"
    /\ Len(parserReturned) = 2
    /\ "fields" \in DOMAIN parserReturned[1]
    /\ "fields" \in DOMAIN parserReturned[2]

TargetSchema == parserReturned[1]

SourceSchema == parserReturned[2]

TF == TargetSchema.fields

SF == SourceSchema.fields

IsAlter(line) == line.kind \in {"ADD", "MODIFY", "DROP"}

LinesOf(kind) ==
    LET IsKind(line) == line.kind = kind IN SelectSeq(ResultList, IsKind)

ColumnOf(line) == line.column

\* Number of lines of kind whose column is written name and whose
\* definition is def
CountLines(kind, name, def) ==
    Cardinality({ k \in 1..Len(ResultList) :
                    /\ ResultList[k].kind = kind
                    /\ ResultList[k].column = name
                    /\ ResultList[k].definition = def })

HasName(fields, name) ==
    \E i \in 1..Len(fields) : toLowerCase(fields[i].name) = toLowerCase(name)

\* Number of fields written name with the reconstructed definition def
CountFields(fields, name, def) ==
    Cardinality({ i \in 1..Len(fields) :
                    fields[i].name = name /\ reconstructDefinition(fields[i]) = def })

\* The comment of a field, a missing comment counting as empty
CommentOf(field) == IF "comment" \in DOMAIN field THEN field.comment ELSE ""

\* The four attributes a modification is detected by
Differs(tField, sField) ==
    \/ toLowerCase(tField.type) # toLowerCase(sField.type)
    \/ tField.nullable # sField.nullable
    \/ tField.isAutoIncrement # sField.isAutoIncrement
    \/ CommentOf(tField) # CommentOf(sField)

\* The target field a name denotes: the field of that name, the last one
\* declared when the text declares the name more than once (0: none).
TargetFieldNamed(name) ==
    IF ~HasName(TF, name) THEN 0
    ELSE CHOOSE i \in 1..Len(TF) :
            /\ toLowerCase(TF[i].name) = toLowerCase(name)
            /\ \A j \in (i + 1)..Len(TF) : toLowerCase(TF[j].name) # toLowerCase(name)

ShouldModify(sField) ==
    /\ TargetFieldNamed(sField.name) # 0
    /\ Differs(TF[TargetFieldNamed(sField.name)], sField)

UniqueNames(fields) ==
    \A i, j \in 1..Len(fields) :
        toLowerCase(fields[i].name) = toLowerCase(fields[j].name) => i = j

RECURSIVE IsSubsequence(_, _)
IsSubsequence(a, b) ==
    IF a = << >> THEN TRUE
    ELSE IF b = << >> THEN FALSE
    ELSE IF Head(a) = Head(b) THEN IsSubsequence(Tail(a), Tail(b))
    ELSE IsSubsequence(a, Tail(b))

NameOf(field) == field.name

\* ------------------------------------------------------------------------
\* C2. A DROP COLUMN is emitted exactly for the target fields whose name,
\* compared case-insensitively, no source field has: every DROP names such
\* a target field, each such field gets one DROP, and a column the source
\* still has gets none.
\* ------------------------------------------------------------------------
DropIffRemoved ==
    BothParsed =>
      /\ \A k \in 1..Len(ResultList) :
            ResultList[k].kind = "DROP" =>
              /\ \E i \in 1..Len(TF) : TF[i].name = ResultList[k].column
              /\ ~HasName(SF, ResultList[k].column)
              /\ ResultList[k].table = TargetSchema.tableName
      /\ \A i \in 1..Len(TF) :
            CountLines("DROP", TF[i].name, << >>) =
              IF HasName(SF, TF[i].name) THEN 0
              ELSE Cardinality({ j \in 1..Len(TF) : TF[j].name = TF[i].name })

\* A diff that drops one target column and keeps another
DropWitness ==
    /\ BothParsed
    /\ Len(LinesOf("DROP")) = 1
    /\ \E i \in 1..Len(TF) : HasName(SF, TF[i].name)

\* ------------------------------------------------------------------------
\* C3. An ADD COLUMN is emitted exactly for the source fields whose name,
\* compared case-insensitively, no target field has: one ADD per such
\* field, carrying the field's reconstructed definition.
\* ------------------------------------------------------------------------
AddIffNew ==
    BothParsed =>
      /\ \A k \in 1..Len(ResultList) :
            ResultList[k].kind = "ADD" =>
              /\ \E i \in 1..Len(SF) :
                    /\ SF[i].name = ResultList[k].column
                    /\ reconstructDefinition(SF[i]) = ResultList[k].definition
              /\ ~HasName(TF, ResultList[k].column)
      /\ \A i \in 1..Len(SF) :
            CountLines("ADD", SF[i].name, reconstructDefinition(SF[i])) =
              IF HasName(TF, SF[i].name) THEN 0
              ELSE CountFields(SF, SF[i].name, reconstructDefinition(SF[i]))

\* A diff that adds one source column and leaves another one alone
AddWitness ==
    /\ BothParsed
    /\ Len(LinesOf("ADD")) = 1
    /\ \E i \in 1..Len(SF) : HasName(TF, SF[i].name)

Rank(line) ==
    CASE line.kind = "comment" -> 0
      [] line.kind = "ADD" -> 1
      [] line.kind = "MODIFY" -> 2
      [] line.kind = "DROP" -> 3

StatementOrder ==
    BothParsed =>
      /\ \A p, q \in 1..Len(ResultList) :
            p < q => Rank(ResultList[p]) <= Rank(ResultList[q])
      /\ IsSubsequence(Map(ColumnOf, LinesOf("ADD")), Map(NameOf, SF))
      /\ IsSubsequence(Map(ColumnOf, LinesOf("MODIFY")), Map(NameOf, SF))
      /\ IsSubsequence(Map(ColumnOf, LinesOf("DROP")), Map(NameOf, TF))

\* A diff holding an ADD, a MODIFY and a DROP
OrderWitness ==
    /\ BothParsed
    /\ Len(LinesOf("ADD")) >= 1
    /\ Len(LinesOf("MODIFY")) >= 1
    /\ Len(LinesOf("DROP")) >= 1

\* ------------------------------------------------------------------------
\* C1. Applying the returned statements to the target's columns yields the
\* source's columns: the same set of names, and for every column the
\* definition reconstructed from the source field of that name.  Names and
\* type keywords are compared case-insensitively; both schemas declare
\* every name once.
\* ------------------------------------------------------------------------
ColumnsOf(fields) ==
    LET AsColumn(f) == [name |-> f.name, definition |-> reconstructDefinition(f)]
    IN  Map(AsColumn, fields)

\* ADD inserts the column, MODIFY replaces its definition, DROP deletes it
ApplyStatement(cols, line) ==
    CASE line.kind = "ADD" ->
            Append(cols, [name |-> line.column, definition |-> line.definition])
      [] line.kind = "MODIFY" ->
            [i \in 1..Len(cols) |->
                IF toLowerCase(cols[i].name) = toLowerCase(line.column)
                THEN [cols[i] EXCEPT !.definition = line.definition]
                ELSE cols[i]]
      [] line.kind = "DROP" ->
            LET Kept(c) == toLowerCase(c.name) # toLowerCase(line.column)
            IN  SelectSeq(cols, Kept)
      [] OTHER -> cols

RECURSIVE ApplyStatements(_, _)
ApplyStatements(cols, lines) ==
    IF lines = << >> THEN cols
    ELSE ApplyStatements(ApplyStatement(cols, Head(lines)), Tail(lines))

\* Two definitions with the same clauses and the same type up to letter case
SameDefinition(d, e) ==
    /\ toLowerCase(Head(d)) = toLowerCase(Head(e))
    /\ Tail(d) = Tail(e)

\* C1: the target's columns after the statements are the source's columns
DiffAppliedYieldsSource ==
    (BothParsed /\ UniqueNames(TF) /\ UniqueNames(SF)) =>
        LET final == ApplyStatements(ColumnsOf(TF), ResultList)
        IN  /\ { toLowerCase(final[i].name) : i \in 1..Len(final) } = LowerNames(SF)
            /\ \A i \in 1..Len(final) : \A j \in 1..Len(SF) :
                  toLowerCase(final[i].name) = toLowerCase(SF[j].name) =>
                      SameDefinition(final[i].definition, reconstructDefinition(SF[j]))

Unparseable(ddl) == ddl.kind # "create"

\* C7: no call throws, and two unusable texts give one comment line
NeverThrows ==
    pc = "done" =>
      /\ ~result.threw
      /\ (Unparseable(targetDDL) /\ Unparseable(sourceDDL)) =>
            /\ Len(ResultList) = 1
            /\ ResultList[1].kind = "comment"

\* Both arguments unusable, the second one making parseDDL throw
NeverThrowsWitness ==
    /\ pc = "done"
    /\ targetDDL.kind = "garbage"
    /\ sourceDDL.kind = "number"
    /\ Len(ResultList) = 1

\* ------------------------------------------------------------------------
\* C8. When the two table names differ the column diff is still computed:
\* the list begins with the comment noting the mismatch and every ALTER
\* statement names the target's table, never the source's.
\* ------------------------------------------------------------------------
TableNamesDiffer == BothParsed /\ TargetSchema.tableName # SourceSchema.tableName

\* C8: the mismatch comment leads and the ALTERs name the target's table
MismatchUsesTargetName ==
    TableNamesDiffer =>
      /\ Len(ResultList) >= 2
      /\ ResultList[1] = CommentLine("table names differ",
                                     TargetSchema.tableName, SourceSchema.tableName)
      /\ \A k \in 1..Len(ResultList) :
            /\ ResultList[k].msg \notin {"cannot parse", "diff error", "no change"}
            /\ IsAlter(ResultList[k]) =>
                  /\ ResultList[k].table = TargetSchema.tableName
                  /\ ResultList[k].table # SourceSchema.tableName
      /\ Len(LinesOf("ADD")) + Len(LinesOf("MODIFY")) + Len(LinesOf("DROP"))
            = Len(ResultList) - 2

\* Table names differ and the list holds an ALTER statement
MismatchWitness ==
    /\ TableNamesDiffer
    /\ \E k \in 1..Len(ResultList) : IsAlter(ResultList[k])

\* ------------------------------------------------------------------------
\* C9. On the single global instance, the list a call returns depends only
\* on the call's two arguments (it is the list the same call returns on a
\* newly constructed engine), and a list returned by an earlier call is
\* not changed by a later call.
\* ------------------------------------------------------------------------
FreshResult(t, s) ==
    LET out == generateDiff(<< << >> >>, 1, t, s) IN out.heap[out.ref]

\* C9: earlier lists stay as returned and the result is that of a new engine
CallsIndependent ==
    /\ \A i \in 1..Len(returned) : heap[returned[i].ref] = returned[i].list
    /\ pc = "done" =>
          /\ ~result.threw
          /\ ResultList = FreshResult(targetDDL, sourceDDL)

\* The first call returned this.statements holding an ALTER statement and
\* two more calls followed, the last with a different result
CallsWitness ==
    /\ Len(returned) >= 3
    /\ IsAlter(returned[1].list[1])
    /\ returned[1].list # returned[3].list
    /\ Len(returned[3].list) > 1

\* ------------------------------------------------------------------------
\* C10. No diff-engine or generator operation changes a parsed schema after
\* the parser returned it: every field object has the same properties with
\* the same values after generateDiff (parseDDL), parseJSONForProtobuf
\* (addProtobufMetadata) and generateProtoMessage as when the parse call
\* returned.
\* ------------------------------------------------------------------------
AfterOperation == pc \in {"done", "proto_parsed", "proto_done"}

\* C10 as stated: the schema objects are exactly as the parser returned them
SchemasUntouched == AfterOperation => schemaObjects = parserReturned

\* The field lists of a parse result: its own and those of its nested schemas
FieldLists(schema) ==
    (IF "fields" \in DOMAIN schema THEN << schema.fields >> ELSE << >>)
      \o (IF "nestedStructs" \in DOMAIN schema
          THEN [n \in 1..Len(schema.nestedStructs) |-> schema.nestedStructs[n].fields]
          ELSE << >>)

\* now has every property of before with the value it had
KeepsProperties(before, now) ==
    \A p \in DOMAIN before : p \in DOMAIN now /\ now[p] = before[p]

\* The properties an operation may add to a field object
AddedProperties ==
    {"fullDefinition", "protoFieldNumber", "isRepeated", "protoElementType"}

\* C10 as amended: every property the parser set on a schema or on a field
\* object keeps its value, no field is added to or removed from a schema,
\* the only properties added to a field object are fullDefinition (by
\* parseDDL) and protoFieldNumber, isRepeated, protoElementType (by
\* addProtobufMetadata), and generateProtoMessage changes nothing.
ParserPropertiesKept ==
    AfterOperation =>
      /\ Len(schemaObjects) = Len(parserReturned)
      /\ \A k \in 1..Len(parserReturned) :
            LET before == parserReturned[k]
                now == schemaObjects[k]
            IN  /\ DOMAIN now = DOMAIN before
                /\ \A p \in DOMAIN before \ {"fields", "nestedStructs"} : now[p] = before[p]
                /\ Len(FieldLists(now)) = Len(FieldLists(before))
                /\ \A l \in 1..Len(FieldLists(before)) :
                      /\ Len(FieldLists(now)[l]) = Len(FieldLists(before)[l])
                      /\ \A i \in 1..Len(FieldLists(before)[l]) :
                            /\ KeepsProperties(FieldLists(before)[l][i], FieldLists(now)[l][i])
                            /\ DOMAIN FieldLists(now)[l][i]
                                 \subseteq DOMAIN FieldLists(before)[l][i] \cup AddedProperties
      /\ pc = "proto_done" => schemaObjects = << protoParsedData >>

\* A conversion ran to its end on a schema with a nested schema whose field
\* objects carry the added properties
FrameWitness ==
    /\ pc = "proto_done"
    /\ Len(schemaObjects[1].nestedStructs) >= 1
    /\ "protoFieldNumber" \in DOMAIN schemaObjects[1].nestedStructs[1].fields[1]
    /\ "protoFieldNumber" \notin DOMAIN parserReturned[1].nestedStructs[1].fields[1]
    /\ Len(protoCode) > 0

\* ------------------------------------------------------------------------
\* The detector on a text of its own
\* ------------------------------------------------------------------------
RECURSIVE Join(_, _)
\* Array.prototype.join
Join(parts, sep) ==
    IF parts = << >> THEN ""
    ELSE IF Len(parts) = 1 THEN parts[1]
    ELSE parts[1] \o sep \o Join(Tail(parts), sep)

CreateHeads == { "CREATE TABLE t (", "  create\n  table t (" }

DetectColumns ==
    { "id INT", "id SERIAL", "id BIGSERIAL", "u UUID", "tags TEXT[]",
      "nums INTEGER[]", "grid int[][]", "j JSONB", "ts TIMESTAMPTZ",
      "id INT AUTO_INCREMENT", "f TINYINT", "n INT COMMENT 'x'",
      "id INTEGER PRIMARY KEY AUTOINCREMENT" }

DetectLines ==
    { "key: value", "- item", "[section]", "key = value",
      "<?xml version=\"1.0\"?>", "<root>", "</root>", "{\"a\": 1}", "plain" }

DetectTexts ==
    { head \o Join(cols, ", ") \o ")\n" :
        head \in CreateHeads, cols \in SeqsUpTo(DetectColumns, MaxDetectColumns) \ {<< >>} }
    \cup { Join(lines, "\n") : lines \in SeqsUpTo(DetectLines, MaxLines) \ {<< >>} }

\* everything but pc and the tools' own state
coreVars == << diffVars, parserReturned, schemaObjects, jsonInput, protoParsedData,
               protoCode, protoOptions >>

CoreIdle ==
    /\ targetDDL = OtherArg("empty")
    /\ sourceDDL = OtherArg("empty")
    /\ EngineInit
    /\ NoProto

InitDetect ==
    /\ pc = "detect_ready"
    /\ CoreIdle
    /\ AppIdle
    /\ input \in DetectTexts
    /\ detectedType = Undefined
    /\ MapperIdle
    /\ ConfigIdle

\* inputType = detectInputType(input)
DetectInputType ==
    /\ pc = "detect_ready"
    /\ detectedType' = detectInputType(input)
    /\ pc' = "detected"
    /\ UNCHANGED << coreVars, appVars, input, mapperVars, configVars >>

NextDetect == DetectInputType

SpecDetect == InitDetect /\ [][NextDetect]_vars

\* ------------------------------------------------------------------------
\* Vocabulary of the detector claims
\* ------------------------------------------------------------------------
\* the word occurs in the text, in any letter case
Occurs(text, word) == includes(IgnoreCase(text), word)

IsCreateTableText(text) ==
    \E i \in 1..Len(text) : \E j \in AfterSpaces(text, i + 6) :
        /\ StartsWithAt(IgnoreCase(text), i, "create")
        /\ j > i + 6
        /\ StartsWithAt(IgnoreCase(text), j, "table")

\* a type name followed by []
HasArrayType(text) ==
    \E i \in 1..Len(text) : IsWordChar(CharAt(text, i)) /\ StartsWithAt(text, i + 1, "[]")

HasPostgresMarker(text) ==
    \/ \E word \in {"serial", "bigserial", "uuid", "jsonb", "timestamptz"} : Occurs(text, word)
    \/ HasArrayType(text)

HasMySQLMarker(text) ==
    \/ Occurs(text, "auto_increment")
    \/ Occurs(text, "tinyint")
    \/ Occurs(text, "comment '")
    \/ Occurs(text, "comment'")

HasSQLiteMarker(text) ==
    \E i \in 1..Len(text) :
        /\ StartsWithAt(IgnoreCase(text), i, "autoincrement")
        /\ ~IsWordChar(CharAt(text, i + 13))

DialectByMarkers(text) ==
    IF HasPostgresMarker(text) THEN "postgresql"
    ELSE IF HasMySQLMarker(text) THEN "mysql"
    ELSE IF HasSQLiteMarker(text) THEN "sqlite"
    ELSE "mysql"

\* ------------------------------------------------------------------------
\* C11: a text containing CREATE TABLE is classified postgresql if it has a
\* Postgres marker (SERIAL, BIGSERIAL, UUID, JSONB, TIMESTAMPTZ, array-type
\* syntax), otherwise mysql if it has a MySQL marker, otherwise sqlite if it
\* has AUTOINCREMENT, otherwise mysql: the earlier check wins, and the
\* result is never json, yaml, toml, xml or unknown.
\* ------------------------------------------------------------------------
DialectByFirstMarker ==
    pc = "detected" /\ IsCreateTableText(input)
        => detectedType = DialectByMarkers(input)

\* ------------------------------------------------------------------------
\* C12: a CREATE TABLE text with a column of array type (a type name
\* followed by []), whatever the element type, is classified postgresql.
\* ------------------------------------------------------------------------
ArrayTypeIsPostgres ==
    pc = "detected" /\ IsCreateTableText(input) /\ HasArrayType(input)
        => detectedType = "postgresql"

\* begins with an <?xml prolog, or is a balanced root tag
XMLShaped(text) ==
    \/ startsWith(text, "<?xml")
    \/ startsWith(text, "<") /\ endsWith(text, ">") /\ Occurs(text, "</")

\* has a [section] header or a key = value line
TOMLShaped(text) == TomlSectionPattern(text) \/ TomlKeyValuePattern(text)

\* ------------------------------------------------------------------------
\* C13: only text that is neither XML-shaped nor TOML-shaped is classified
\* yaml, whatever lines of the key: value or - item pattern it has.
\* ------------------------------------------------------------------------
YamlOnlyUnshaped ==
    pc = "detected" /\ detectedType = "yaml"
        => ~XMLShaped(trim(input)) /\ ~TOMLShaped(trim(input))

\* ------------------------------------------------------------------------
\* The Protocol Buffer conversion on its own
\* ------------------------------------------------------------------------
NextProto == ParseJSONForProtobuf \/ GenerateProtoMessage

SpecProto == InitProto /\ [][NextProto]_vars

\* ------------------------------------------------------------------------
\* Vocabulary of the Protocol Buffer claims
\* ------------------------------------------------------------------------
ProtoDone == pc = "proto_done"

\* the schema generateProtoMessage was given
ProtoSchema == schemaObjects[1]

MainMessageName ==
    IF protoOptions.messageName # Undefined THEN protoOptions.messageName
    ELSE ProtoSchema.structName

\* the lines that open a message
MessageLines == { i \in 1..Len(protoCode) : protoCode[i].kind = "open" }

\* the line that closes the message opened at line o
CloseOf(o) ==
    LET closes == { c \in (o + 1)..Len(protoCode) :
                      /\ protoCode[c].kind = "close"
                      /\ protoCode[c].indent = protoCode[o].indent }
    IN  CHOOSE c \in closes : \A d \in closes : c <= d

\* the field lines of the message opened at line o, without those of the
\* messages inside it
OwnFieldLines(o) ==
    { i \in (o + 1)..(CloseOf(o) - 1) :
        /\ protoCode[i].kind = "field"
        /\ protoCode[i].indent = protoCode[o].indent + 2 }

\* the position of line i among the lines of S
PositionIn(S, i) == Cardinality({ j \in S : j <= i })

NestedNames == { ProtoSchema.nestedStructs[n].name : n \in 1..Len(ProtoSchema.nestedStructs) }

\* the fields of the schema the message opened at line o was generated from
SourceFields(o) ==
    IF protoCode[o].name \in NestedNames
    THEN LET n == CHOOSE n \in 1..Len(ProtoSchema.nestedStructs) :
                     ProtoSchema.nestedStructs[n].name = protoCode[o].name
         IN  ProtoSchema.nestedStructs[n].fields
    ELSE ProtoSchema.fields

\* the field the line i of the message opened at o was generated from
SourceField(o, i) == SourceFields(o)[PositionIn(OwnFieldLines(o), i)]

\* ------------------------------------------------------------------------
\* C14: in the text of parseJSONForProtobuf followed by generateProtoMessage,
\* the fields of every message (the main one and each nested one) carry the
\* numbers 1, 2, ..., N in declaration order, N the number of its fields.
\* ------------------------------------------------------------------------
FieldNumbersSequential ==
    ProtoDone =>
        \A o \in MessageLines :
            /\ Cardinality(OwnFieldLines(o)) = Len(SourceFields(o))
            /\ \A i \in OwnFieldLines(o) :
                  protoCode[i].number = PositionIn(OwnFieldLines(o), i)

\* a main message of two fields and a nested message with fields were emitted
FieldNumbersWitness ==
    /\ ProtoDone
    /\ \E o \in MessageLines :
          protoCode[o].name = MainMessageName /\ Cardinality(OwnFieldLines(o)) >= 2
    /\ \E o \in MessageLines :
          protoCode[o].name \in NestedNames /\ Cardinality(OwnFieldLines(o)) >= 2

\* str.replace(/([A-Z])/g, '_$1')
RECURSIVE UnderscoreCapitals(_)
UnderscoreCapitals(str) ==
    IF str = "" THEN ""
    ELSE (IF \E i \in 1..26 : Head(str) = UpperCaseLetters[i]
          THEN "_" \o Head(str) ELSE Head(str)) \o UnderscoreCapitals(Tail(str))

\* toSnakeCase of the generator: .toLowerCase().replace(/^_/, '')
toSnakeCase(fieldName) ==
    LET lower == IgnoreCase(UnderscoreCapitals(fieldName))
    IN  IF startsWith(lower, "_") THEN Tail(lower) ELSE lower

\* ------------------------------------------------------------------------
\* C15: every field name generateProtoMessage emits is the snake_case form
\* of the name of the field it comes from (userName gives user_name), and
\* every message name is emitted as it is.
\* ------------------------------------------------------------------------
FieldNamesSnakeCase ==
    ProtoDone =>
        /\ \A o \in MessageLines : \A i \in OwnFieldLines(o) :
              protoCode[i].name = toSnakeCase(SourceField(o, i).name)
        /\ \A o \in MessageLines :
              protoCode[o].name \in NestedNames \cup {MainMessageName}

\* validTypes of isValidProtobufType: the scalar types of Protocol Buffers
isValidProtobufType(type) ==
    type \in { "double", "float", "int32", "int64", "uint32", "uint64", "sint32",
               "sint64", "fixed32", "fixed64", "sfixed32", "sfixed64", "bool",
               "string", "bytes" }

\* ------------------------------------------------------------------------
\* C16: a field whose goType starts with "[]" is emitted as repeated followed
\* by one scalar type or message name for its element, whatever the array
\* type (arrays of arrays too), and no other field is emitted repeated.
\* ------------------------------------------------------------------------
RepeatedIffArray ==
    ProtoDone =>
        \A o \in MessageLines : \A i \in OwnFieldLines(o) :
            LET type == protoCode[i].type
            IN  IF Head(SourceField(o, i).goType) = "[]"
                THEN /\ Len(type) = 2
                     /\ type[1] = "repeated"
                     /\ isValidProtobufType(type[2]) \/ type[2] \in NestedNames
                ELSE /\ Len(type) = 1
                     /\ type[1] # "repeated"

\* the line that opens the main message
MainLine == CHOOSE o \in MessageLines : protoCode[o].name = MainMessageName

\* the lines that open the message of the n-th nested struct
NestedLines(n) ==
    { o \in MessageLines : protoCode[o].name = ProtoSchema.nestedStructs[n].name }

\* ------------------------------------------------------------------------
\* C17: with nestedMode separate every nested struct is emitted once, as a
\* top-level message before the main message; with nestedMode inline every
\* nested struct is emitted once, inside the braces of the main message.
\* ------------------------------------------------------------------------
NestedPlacedByMode ==
    ProtoDone =>
        /\ Cardinality({ o \in MessageLines : protoCode[o].name = MainMessageName }) = 1
        /\ protoCode[MainLine].indent = 0
        /\ \A n \in 1..Len(ProtoSchema.nestedStructs) :
              /\ Cardinality(NestedLines(n)) = 1
              /\ \A o \in NestedLines(n) :
                    IF protoOptions.nestedMode = "separate"
                    THEN protoCode[o].indent = 0 /\ CloseOf(o) < MainLine
                    ELSE /\ protoCode[o].indent = 2
                         /\ MainLine < o
                         /\ CloseOf(o) < CloseOf(MainLine)

\* two nested structs were emitted inline
NestedPlacedWitness ==
    /\ ProtoDone
    /\ protoOptions.nestedMode = "inline"
    /\ Len(ProtoSchema.nestedStructs) >= 2
    /\ \A n \in 1..Len(ProtoSchema.nestedStructs) :
          \E o \in NestedLines(n) : MainLine < o /\ o < CloseOf(MainLine)

\* ------------------------------------------------------------------------
\* The type mappers on a type token of their own
\* ------------------------------------------------------------------------
InitMapper ==
    /\ pc = "map_ready"
    /\ CoreIdle
    /\ AppIdle
    /\ DetectIdle
    /\ ConfigIdle
    /\ typeToken \in TypeTokens
    /\ mapperOptions \in MapperOptions
    /\ mappedType = Undefined

\* mapJSONTypeToProtobuf(jsonType, options)
MapJSONTypeToProtobuf ==
    /\ pc = "map_ready"
    /\ mappedType' = mapJSONTypeToProtobuf(typeToken, mapperOptions)
    /\ pc' = "mapped_json"
    /\ UNCHANGED << coreVars, appVars, detectVars, configVars, typeToken, mapperOptions >>

\* mapTypeToProtobuf(goType, options)
MapTypeToProtobuf ==
    /\ pc = "map_ready"
    /\ mappedType' = mapTypeToProtobuf(<< typeToken >>, mapperOptions)
    /\ pc' = "mapped_go"
    /\ UNCHANGED << coreVars, appVars, detectVars, configVars, typeToken, mapperOptions >>

NextMapper == MapJSONTypeToProtobuf \/ MapTypeToProtobuf

SpecMapper == InitMapper /\ [][NextMapper]_vars

\* the names the inferer generates for nested schemas
NestedSchemaNames == { PascalTable[k] : k \in DOMAIN PascalTable }

\* ------------------------------------------------------------------------
\* C18: for the object and array types the Protocol Buffer type mapper
\* returns the generated name of a nested schema, never a container keyword
\* such as message or repeated.
\* ------------------------------------------------------------------------
ContainerTypesGiveNestedName ==
    pc = "mapped_json" /\ typeToken \in {"object", "array"}
        => mappedType \in NestedSchemaNames /\ mappedType \notin {"message", "repeated"}

\* C18 as amended: the generated name of a nested schema, given as the type
\* token, is returned unchanged by both mappers; for the literal tokens
\* object and array mapJSONTypeToProtobuf returns message and repeated.
NestedNamePassesThrough ==
    /\ pc \in {"mapped_json", "mapped_go"} /\ typeToken \in NestedSchemaNames
          => mappedType = typeToken
    /\ pc = "mapped_json" /\ typeToken = "object" => mappedType = "message"
    /\ pc = "mapped_json" /\ typeToken = "array" => mappedType = "repeated"

NestedNameWitness ==
    pc = "mapped_json" /\ typeToken = "Profile" /\ mappedType = "Profile"

\* the scalar types a mapper has an entry for
MappedScalars(mapper) ==
    IF mapper = "mapped_json" THEN {"string", "int", "float", "number", "boolean"}
    ELSE {"string", "int", "int64", "int32", "float64", "float32", "bool"}

\* the token a mapper knows the null or unknown type by
UnknownTypeToken(mapper) == IF mapper = "mapped_json" THEN "null" ELSE "interface{}"

\* the token is neither a mapped scalar nor the name of a nested schema nor
\* a container type
IsUnmappedToken(mapper, token) ==
    token \notin MappedScalars(mapper) \cup NestedSchemaNames \cup {"array", "object", "[]int"}

DataVal(t, v, items, members) == [t |-> t, v |-> v, items |-> items, members |-> members]

DNull == DataVal("null", "", << >>, << >>)

DBool(v) == DataVal("boolean", v, << >>, << >>)

DNum(v) == DataVal("number", v, << >>, << >>)

DStr(v) == DataVal("string", v, << >>, << >>)

DArr(items) == DataVal("array", "", items, << >>)

DObj(members) == DataVal("object", "", << >>, members)

\* obj[key] = value: a new key goes last, a present key keeps its place
SetMember(members, key, value) ==
    IF \E i \in 1..Len(members) : members[i].key = key
    THEN [i \in 1..Len(members) |->
            IF members[i].key = key THEN Member(key, value) ELSE members[i]]
    ELSE Append(members, Member(key, value))

RECURSIVE Repeat(_, _)
\* String.prototype.repeat
Repeat(str, count) == IF count <= 0 THEN "" ELSE str \o Repeat(str, count - 1)

\* ------------------------------------------------------------------------
\* JSON.stringify(data, null, indent) and JSON.parse
\* ------------------------------------------------------------------------
RECURSIVE QuoteJSONChars(_)
QuoteJSONChars(str) ==
    IF str = "" THEN ""
    ELSE (CASE Head(str) = "\"" -> "\\\""
            [] Head(str) = "\\" -> "\\\\"
            [] Head(str) = "\n" -> "\\n"
            [] Head(str) = "\t" -> "\\t"
            [] Head(str) = "\r" -> "\\r"
            [] OTHER -> Head(str)) \o QuoteJSONChars(Tail(str))

\* QuoteJSONString of the language standard
QuoteJSONString(str) == "\"" \o QuoteJSONChars(str) \o "\""

\* SerializeJSONProperty with the gap and the current indentation
RECURSIVE SerializeJSON(_, _, _)
SerializeJSON(value, gap, indent) ==
    LET stepback == indent
        inner == indent \o gap
        separator == IF gap = "" THEN "," ELSE ",\n" \o inner
        Wrap(open, parts, close) ==
            IF parts = << >> THEN open \o close
            ELSE IF gap = "" THEN open \o Join(parts, separator) \o close
            ELSE open \o "\n" \o inner \o Join(parts, separator) \o "\n" \o stepback \o close
    IN  CASE value.t = "null" -> "null"
          [] value.t \in {"boolean", "number"} -> value.v
          [] value.t = "string" -> QuoteJSONString(value.v)
          [] value.t = "array" ->
                Wrap("[", [i \in 1..Len(value.items) |->
                             SerializeJSON(value.items[i], gap, inner)], "]")
          [] value.t = "object" ->
                Wrap("{", [i \in 1..Len(value.members) |->
                             QuoteJSONString(value.members[i].key)
                               \o (IF gap = "" THEN ":" ELSE ": ")
                               \o SerializeJSON(value.members[i].value, gap, inner)], "}")

\* JSON.stringify(value, null, space) for a number space: the gap is
\* min(space, 10) spaces
JSONStringify(value, space) ==
    SerializeJSON(value, Repeat(" ", IF space > 10 THEN 10 ELSE space), "")

\* The characters of a JSON string whose opening quote is before i: the
\* position after the closing quote and the string, end 0 where there is none
RECURSIVE ParseJSONString(_, _, _)
ParseJSONString(s, i, acc) ==
    LET c == CharAt(s, i)
        d == CharAt(s, i + 1)
    IN  IF c = "" \/ c \in {"\n", "\r", "\t"} THEN [end |-> 0, value |-> DNull]
        ELSE IF c = "\"" THEN [end |-> i + 1, value |-> DStr(acc)]
        ELSE IF c = "\\" THEN
            (IF d \in {"\"", "\\", "/"} THEN ParseJSONString(s, i + 2, acc \o d)
             ELSE IF d = "n" THEN ParseJSONString(s, i + 2, acc \o "\n")
             ELSE IF d = "t" THEN ParseJSONString(s, i + 2, acc \o "\t")
             ELSE IF d = "r" THEN ParseJSONString(s, i + 2, acc \o "\r")
             ELSE [end |-> 0, value |-> DNull])
        ELSE ParseJSONString(s, i + 1, acc \o c)

\* Each Parse... gives the position after the construct at i and its value,
\* end 0 where the text has no such construct there
RECURSIVE ParseJSONValue(_, _), ParseJSONElements(_, _, _), ParseJSONMembers(_, _, _)
ParseJSONValue(s, i) ==
    LET c == CharAt(s, i)
        j == SkipJSONSpace(s, i + 1)
    IN  IF c = "{" THEN
            (IF CharAt(s, j) = "}" THEN [end |-> j + 1, value |-> DObj(<< >>)]
             ELSE ParseJSONMembers(s, j, << >>))
        ELSE IF c = "[" THEN
            (IF CharAt(s, j) = "]" THEN [end |-> j + 1, value |-> DArr(<< >>)]
             ELSE ParseJSONElements(s, j, << >>))
        ELSE IF c = "\"" THEN ParseJSONString(s, i + 1, "")
        ELSE IF StartsWithAt(s, i, "true") THEN [end |-> i + 4, value |-> DBool("true")]
        ELSE IF StartsWithAt(s, i, "false") THEN [end |-> i + 5, value |-> DBool("false")]
        ELSE IF StartsWithAt(s, i, "null") THEN [end |-> i + 4, value |-> DNull]
        ELSE IF c = "" \/ JSONNumberEnd(s, i) = 0 THEN [end |-> 0, value |-> DNull]
        ELSE [end |-> JSONNumberEnd(s, i),
              value |-> DNum(SubSeq(s, i, JSONNumberEnd(s, i) - 1))]

ParseJSONElements(s, i, acc) ==
    LET e == ParseJSONValue(s, i)
        j == SkipJSONSpace(s, e.end)
    IN  IF e.end = 0 THEN e
        ELSE IF CharAt(s, j) = "]" THEN [end |-> j + 1, value |-> DArr(Append(acc, e.value))]
        ELSE IF CharAt(s, j) = ","
             THEN ParseJSONElements(s, SkipJSONSpace(s, j + 1), Append(acc, e.value))
        ELSE [end |-> 0, value |-> DNull]

ParseJSONMembers(s, i, acc) ==
    LET k == IF CharAt(s, i) = "\"" THEN ParseJSONString(s, i + 1, "")
             ELSE [end |-> 0, value |-> DNull]
        c == SkipJSONSpace(s, k.end)
        e == IF k.end # 0 /\ CharAt(s, c) = ":"
             THEN ParseJSONValue(s, SkipJSONSpace(s, c + 1))
             ELSE [end |-> 0, value |-> DNull]
        j == SkipJSONSpace(s, e.end)
        members == SetMember(acc, k.value.v, e.value)
    IN  IF e.end = 0 THEN e
        ELSE IF CharAt(s, j) = "}" THEN [end |-> j + 1, value |-> DObj(members)]
        ELSE IF CharAt(s, j) = "," THEN ParseJSONMembers(s, SkipJSONSpace(s, j + 1), members)
        ELSE [end |-> 0, value |-> DNull]

\* JSON.parse(text): the value, or a SyntaxError thrown
JSONParse(text) ==
    LET e == ParseJSONValue(text, SkipJSONSpace(text, 1))
    IN  IF text = "" \/ e.end = 0 \/ SkipJSONSpace(text, e.end) # Len(text) + 1
        THEN [threw |-> TRUE, value |-> DNull]
        ELSE [threw |-> FALSE, value |-> e.value]

\* const indent = options.indent || 4
IndentOr4(options) ==
    IF "indent" \in DOMAIN options /\ options.indent # 0 THEN options.indent ELSE 4

generateJSON(data, options) == JSONStringify(data, IndentOr4(options))

\* ------------------------------------------------------------------------
\* generateXML (the manual generation) and parseXML
\* ------------------------------------------------------------------------
RECURSIVE escapeXML(_)
escapeXML(str) ==
    IF str = "" THEN ""
    ELSE (CASE Head(str) = "&" -> "&amp;"
            [] Head(str) = "<" -> "&lt;"
            [] Head(str) = ">" -> "&gt;"
            [] Head(str) = "\"" -> "&quot;"
            [] Head(str) = "'" -> "&apos;"
            [] OTHER -> Head(str)) \o escapeXML(Tail(str))

RECURSIVE objectToXML(_, _, _, _)
objectToXML(obj, tagName, level, indentStr) ==
    LET currentIndent == Repeat(indentStr, level)
        children == SelectSeq(obj.members, LAMBDA m : ~startsWith(m.key, "@_"))
        content == Join([i \in 1..Len(children) |->
                           objectToXML(children[i].value, children[i].key, level + 1,
                                       indentStr)], "")
    IN  CASE obj.t = "null" -> currentIndent \o "<" \o tagName \o "/>\n"
          [] obj.t \in {"boolean", "number", "string"} ->
                currentIndent \o "<" \o tagName \o ">" \o escapeXML(obj.v)
                    \o "</" \o tagName \o ">\n"
          [] obj.t = "array" ->
                Join([i \in 1..Len(obj.items) |->
                        objectToXML(obj.items[i], tagName, level, indentStr)], "")
          [] obj.t = "object" ->
                IF children = << >> THEN currentIndent \o "<" \o tagName \o "/>\n"
                ELSE currentIndent \o "<" \o tagName \o ">\n" \o content
                       \o currentIndent \o "</" \o tagName \o ">\n"

\* generateXML where no XMLBuilder is loaded: the manual generation
generateXML(data, options) ==
    LET indent == IndentOr4(options)
        rootName == IF "rootName" \in DOMAIN options /\ options.rootName # ""
                    THEN options.rootName ELSE "root"
        indentStr == Repeat(" ", indent)
    IN  "<?xml version=\"1.0\" encoding=\"UTF-8\"?>\n"
          \o objectToXML(data, rootName, 0, indentStr)

\* XMLParser.parse of parseXML: { ignoreAttributes: false,
\* attributeNamePrefix: '@_', textNodeName: '#text' }.  The document is read
\* into an object keyed by tag name: an element of elements is an object, a
\* repeated tag an array, an element of text the text's value, an empty
\* element '', the <?xml ?> declaration the member '?xml' of its attributes.
IndexOf(s, sub, i) ==
    LET at == { j \in i..Len(s) : StartsWithAt(s, j, sub) }
    IN  IF at = {} THEN Len(s) + 1 ELSE CHOOSE j \in at : \A k \in at : j <= k

IsTagNameChar(c) == IsWordChar(c) \/ c \in {"-", ".", ":"}

RECURSIVE DecodeEntities(_)
DecodeEntities(str) ==
    IF str = "" THEN ""
    ELSE IF startsWith(str, "&amp;") THEN "&" \o DecodeEntities(SubSeq(str, 6, Len(str)))
    ELSE IF startsWith(str, "&lt;") THEN "<" \o DecodeEntities(SubSeq(str, 5, Len(str)))
    ELSE IF startsWith(str, "&gt;") THEN ">" \o DecodeEntities(SubSeq(str, 5, Len(str)))
    ELSE IF startsWith(str, "&quot;") THEN "\"" \o DecodeEntities(SubSeq(str, 7, Len(str)))
    ELSE IF startsWith(str, "&apos;") THEN "'" \o DecodeEntities(SubSeq(str, 7, Len(str)))
    ELSE Head(str) \o DecodeEntities(Tail(str))

\* parseTagValue: the text of an element as a boolean, a number or a string
parseTagValue(text) ==
    IF text \in {"true", "false"} THEN DBool(text)
    ELSE IF text # "" /\ JSONNumberEnd(text, 1) = Len(text) + 1 THEN DNum(text)
    ELSE DStr(text)

\* a further child of the name: the second one turns the member into an array
AddChild(members, key, value) ==
    IF \E i \in 1..Len(members) : members[i].key = key
    THEN [i \in 1..Len(members) |->
            IF members[i].key # key THEN members[i]
            ELSE IF members[i].value.t = "array"
                 THEN Member(key, DArr(Append(members[i].value.items, value)))
                 ELSE Member(key, DArr(<< members[i].value, value >>))]
    ELSE Append(members, Member(key, value))

\* the attributes name="value" from i up to the position stop
RECURSIVE ParseXMLAttributes(_, _, _, _)
ParseXMLAttributes(s, i, stop, acc) ==
    LET j == RunEnd(IsSpace, s, i)
        nameEnd == RunEnd(IsTagNameChar, s, j)
        valueEnd == IndexOf(s, "\"", nameEnd + 2)
    IN  IF j >= stop \/ nameEnd = j \/ ~StartsWithAt(s, nameEnd, "=\"") \/ valueEnd > stop
        THEN acc
        ELSE ParseXMLAttributes(s, valueEnd + 1, stop,
                 Append(acc, Member("@_" \o SubSeq(s, j, nameEnd - 1),
                                    DStr(SubSeq(s, nameEnd + 2, valueEnd - 1)))))

\* the nodes from i up to a closing tag or the end of the text
RECURSIVE ParseXMLNodes(_, _, _)
ParseXMLNodes(s, i, acc) ==
    LET j == RunEnd(IsSpace, s, i)
        piEnd == IndexOf(s, "?>", j)
        piNameEnd == RunEnd(IsTagNameChar, s, j + 2)
        nameEnd == RunEnd(IsTagNameChar, s, j + 1)
        name == SubSeq(s, j + 1, nameEnd - 1)
        gt == IndexOf(s, ">", nameEnd)
        next == IndexOf(s, "<", gt + 1)
        text == trim(SubSeq(s, gt + 1, next - 1))
        inner == ParseXMLNodes(s, gt + 1, << >>)
        closeLen == Len(name) + 3
    IN  IF j > Len(s) \/ StartsWithAt(s, j, "</") \/ CharAt(s, j) # "<"
        THEN [end |-> j, members |-> acc]
        ELSE IF StartsWithAt(s, j, "<?")
        THEN ParseXMLNodes(s, piEnd + 2,
                 AddChild(acc, "?" \o SubSeq(s, j + 2, piNameEnd - 1),
                          DObj(ParseXMLAttributes(s, piNameEnd, piEnd, << >>))))
        ELSE IF CharAt(s, gt - 1) = "/"
        THEN ParseXMLNodes(s, gt + 1, AddChild(acc, name, DStr("")))
        ELSE IF StartsWithAt(s, next, "</")
        THEN ParseXMLNodes(s, next + closeLen,
                 AddChild(acc, name, parseTagValue(DecodeEntities(text))))
        ELSE ParseXMLNodes(s, inner.end + closeLen, AddChild(acc, name, DObj(inner.members)))

\* parseXML(content) where the library is loaded: { data }, or { error }
\* for a <? that no ?> closes
parseXML(content) ==
    IF \E i \in 1..Len(content) :
          StartsWithAt(content, i, "<?") /\ IndexOf(content, "?>", i) > Len(content)
    THEN [error |-> "XML"]
    ELSE [data |-> DObj(ParseXMLNodes(content, 1, << >>).members)]

\* ------------------------------------------------------------------------
\* A config conversion whose output is read back and converted again
\* ------------------------------------------------------------------------
ConfigValues ==
    { DNull, DBool("true"), DNum("42"), DStr("x"), DStr("a&b"),
      DArr(<< >>), DArr(<< DNum("1"), DStr("x") >>),
      DObj(<< >>), DObj(<< Member("host", DStr("x")) >>) }

ConfigKeys == { "name", "port" }

\* the decoded data: an object of up to MaxConfigKeys members
ConfigRoots ==
    { DObj(members) : members \in
        { ms \in SeqsUpTo(ConfigKeys \X ConfigValues, MaxConfigKeys) :
            \A i, j \in 1..Len(ms) : i # j => ms[i][1] # ms[j][1] } }

\* the members as key and value records
AsMembers(value) ==
    DObj([i \in 1..Len(value.members) |->
            Member(value.members[i][1], value.members[i][2])])

InitConfig ==
    /\ pc = "config_ready"
    /\ CoreIdle
    /\ AppIdle
    /\ DetectIdle
    /\ MapperIdle
    /\ configFormat \in {"json", "xml"}
    /\ configIndent \in {0, 2, 4}
    /\ configData \in { AsMembers(root) : root \in ConfigRoots }
    /\ configTexts = << >>

\* generatedCode = ConfigGenerator.generateJSON(dataToConvert, { indent }),
\* or generateXML
GenerateConfig ==
    /\ pc = "config_ready"
    /\ Len(configTexts) < MaxRounds
    /\ configTexts' = Append(configTexts,
                             IF configFormat = "json"
                             THEN generateJSON(configData, [indent |-> configIndent])
                             ELSE generateXML(configData, [indent |-> configIndent]))
    /\ pc' = "config_generated"
    /\ UNCHANGED << coreVars, appVars, detectVars, mapperVars, configFormat, configIndent,
                    configData >>

\* the generated text as the next input: configData = JSON.parse(input), or
\* parseXML(input).data
ParseConfig ==
    /\ pc = "config_generated"
    /\ LET text == configTexts[Len(configTexts)]
       IN  IF configFormat = "json"
           THEN /\ configData' = JSONParse(text).value
                /\ pc' = IF JSONParse(text).threw THEN "config_failed" ELSE "config_ready"
           ELSE /\ configData' = IF "error" \in DOMAIN parseXML(text) THEN DNull
                                  ELSE parseXML(text).data
                /\ pc' = IF "error" \in DOMAIN parseXML(text) THEN "config_failed"
                         ELSE "config_ready"
    /\ UNCHANGED << coreVars, appVars, detectVars, mapperVars, configFormat, configIndent,
                    configTexts >>

NextConfig == GenerateConfig \/ ParseConfig

SpecConfig == InitConfig /\ [][NextConfig]_vars

\* ------------------------------------------------------------------------
\* C20: for each config generator, any data and any indent width, the text
\* generated from the data read back from a generated text is that text,
\* byte for byte.
\* ------------------------------------------------------------------------
ReformatIdentical ==
    \A k \in 2..Len(configTexts) : configTexts[k] = configTexts[k - 1]

\* ------------------------------------------------------------------------
\* The pages and utilities of the application
\* ------------------------------------------------------------------------
\* everything a page or utility of the application leaves alone
modelVars == << pc, coreVars, detectVars, mapperVars, configVars >>

ModelIdle ==
    /\ pc = "idle"
    /\ CoreIdle
    /\ DetectIdle
    /\ MapperIdle
    /\ ConfigIdle

\* ------------------------------------------------------------------------
\* The public parse and generate functions and the libraries they need
\* ------------------------------------------------------------------------
\* the globals the page's script tags may have defined
LibraryGlobals == { "jsyaml", "TOML", "TOML.parse", "TOML.stringify", "XMLParser",
                    "XMLBuilder" }

LoadedGlobals ==
    { g \in SUBSET LibraryGlobals :
        ("TOML.parse" \in g \/ "TOML.stringify" \in g) => "TOML" \in g }

\* how a call ends: return value, or throw e
Returned(value) == [threw |-> FALSE, value |-> value]

Thrown(e) == [threw |-> TRUE, value |-> [message |-> e]]

\* parseYAML(content); libraryThrows: jsyaml.load throws on this content
parseYAML(content, globals, libraryThrows) ==
    IF "jsyaml" \notin globals THEN Returned([error |-> "js-yaml library not loaded"])
    ELSE IF libraryThrows THEN Returned([error |-> "YAML"])
    ELSE Returned([type |-> "yaml", raw |-> content])

\* parseTOML(content); libraryThrows: TOML.parse throws on this content
parseTOML(content, globals, libraryThrows) ==
    IF "TOML" \notin globals \/ "TOML.parse" \notin globals
    THEN Returned([error |-> "TOML library not loaded"])
    ELSE IF libraryThrows THEN Returned([error |-> "TOML"])
    ELSE Returned([type |-> "toml", raw |-> content])

\* parseXML(content) whether or not the library is loaded
parseXMLContent(content, globals, libraryThrows) ==
    IF "XMLParser" \notin globals
    THEN Returned([error |-> "fast-xml-parser library not loaded"])
    ELSE IF libraryThrows THEN Returned([error |-> "XML"])
    ELSE Returned([type |-> "xml", raw |-> content])

\* ConfigGenerator.generateYAML(data); libraryThrows: jsyaml.dump throws
generateYAML(data, globals, libraryThrows) ==
    IF "jsyaml" \notin globals THEN Thrown("js-yaml library not loaded")
    ELSE IF libraryThrows THEN Thrown("jsyaml.dump")
    ELSE Returned("<yaml>")

\* ConfigGenerator.generateTOML(data); libraryThrows: TOML.stringify throws
generateTOML(data, globals, libraryThrows) ==
    IF "TOML" \notin globals THEN Thrown("TOML library not loaded")
    ELSE IF "TOML.stringify" \in globals
         THEN IF libraryThrows THEN Thrown("TOML.stringify") ELSE Returned("<toml>")
         ELSE Returned("<manual toml>")

\* ConfigGenerator.generateXML(data); libraryThrows: builder.build throws
generateXMLWith(data, globals, libraryThrows) ==
    IF "XMLBuilder" \in globals
    THEN IF libraryThrows THEN Thrown("builder.build") ELSE Returned("<xml>")
    ELSE Returned(generateXML(data, [indent |-> 4]))

\* the options of generateProtoMessage(parsedData): every default taken
DefaultProtoOptions ==
    [messageName |-> Undefined, nestedMode |-> "separate", packageName |-> "model",
     syntax |-> "proto3", numericIntType |-> "int32", numericFloatType |-> "float"]

PublicFunctions ==
    { "parseYAML", "parseTOML", "parseXML", "parseJSONForProtobuf", "generateYAML",
      "generateTOML", "generateXML", "generateJSON", "generateProtoMessage" }

\* the value of the call of the public function fn
CallOf(fn, json, data, globals, libraryThrows) ==
    CASE fn = "parseYAML" -> parseYAML("text", globals, libraryThrows)
      [] fn = "parseTOML" -> parseTOML("text", globals, libraryThrows)
      [] fn = "parseXML" -> parseXMLContent("text", globals, libraryThrows)
      [] fn = "parseJSONForProtobuf" ->
            Returned(parseJSONForProtobuf(json, "Message").value)
      [] fn = "generateYAML" -> generateYAML(data, globals, libraryThrows)
      [] fn = "generateTOML" -> generateTOML(data, globals, libraryThrows)
      [] fn = "generateXML" -> generateXMLWith(data, globals, libraryThrows)
      [] fn = "generateJSON" -> Returned(generateJSON(data, [indent |-> 4]))
      [] fn = "generateProtoMessage" ->
            Returned(generateProtoMessage(
                parseJSONForProtobuf([kind |-> "json", root |-> JObj(<< >>)],
                                     "Message").value, DefaultProtoOptions))

InitLibraries ==
    /\ ModelIdle
    /\ libraries \in [ at : {"ready"}, fn : PublicFunctions, globals : LoadedGlobals,
                       json : { [kind |-> "json", root |-> JObj(<< >>)],
                                [kind |-> "invalid", root |-> JNull] },
                       data : { DObj(<< >>) },
                       libraryThrows : BOOLEAN,
                       outcome : { Null } ]
    /\ converter = Null
    /\ diffPage = Null
    /\ markdown = Null
    /\ debouncer = Null
    /\ lightbox = Null
    /\ exporter = Null
    /\ formatter = Null

\* the call of the public function
CallPublicFunction ==
    /\ libraries.at = "ready"
    /\ libraries' = [libraries EXCEPT
            !.at = "called",
            !.outcome = CallOf(libraries.fn, libraries.json, libraries.data,
                               libraries.globals, libraries.libraryThrows)]
    /\ UNCHANGED << modelVars, converter, diffPage, markdown, debouncer, lightbox,
                    exporter, formatter >>

NextLibraries == CallPublicFunction

SpecLibraries == InitLibraries /\ [][NextLibraries]_vars

\* ------------------------------------------------------------------------
\* C21: every public parse and generate function reports a failure by
\* returning a value that carries an error and never by throwing, also
\* when the library it needs is not loaded.
\* ------------------------------------------------------------------------
PublicFunctionsNeverThrow ==
    libraries.at = "called" => ~libraries.outcome.threw

\* ------------------------------------------------------------------------
\* The converter page: handleConvert, handleCopy, handleExport, handleClear
\* ------------------------------------------------------------------------
SQLDialects == { "mysql", "postgresql", "sqlite" }

ConfigTypes == { "json", "yaml", "toml", "xml" }

OutputFormats == { "go", "proto", "json", "yaml", "toml" }

\* A text of the input editor, by what detectInputType makes of it and by
\* whether its parser accepts it; the trimmed text '' is EmptyText
EmptyText == [type |-> "empty", valid |-> FALSE]

ConverterTexts ==
    { [type |-> t, valid |-> TRUE] : t \in SQLDialects \cup {"json", "xml"} }
      \cup { [type |-> "json", valid |-> FALSE], [type |-> "unknown", valid |-> FALSE] }

\* the texts of the output editor and of lastGeneratedCode
EmptyCode == [code |-> "", of |-> EmptyText]

GeneratedCode(format, text) == [code |-> format, of |-> text]

\* `// 错误: ${error.message}`
ErrorText(message) == [code |-> "error", message |-> message]

Placeholder == [code |-> "placeholder", of |-> EmptyText]

\* parsedData of a text its parser accepts
ParsedData(text) == [parsed |-> text]

\* handleConvert() on the page c, dbType 'auto' and the libraries loaded
handleConvert(c) ==
    LET text == c.inputArea
        inputType == text.type
        Failed(message, parsed) ==
            [c EXCEPT !.outputArea = ErrorText(message), !.status = "error",
                      !.lastParsedData = parsed]
    IN  IF text = EmptyText THEN [c EXCEPT !.status = "error"]
        ELSE IF inputType = "unknown" THEN Failed("unknown input type", c.lastParsedData)
        ELSE IF ~text.valid THEN Failed("parse error", c.lastParsedData)
        ELSE IF c.outputFormat = "proto" /\ inputType \notin ConfigTypes
        THEN Failed("Protocol Buffer needs JSON/YAML/TOML/XML", ParsedData(text))
        ELSE IF c.outputFormat \in {"json", "yaml", "toml"} /\ inputType \notin ConfigTypes
        THEN Failed("no data to convert", ParsedData(text))
        ELSE [c EXCEPT !.lastParsedData = ParsedData(text),
                       !.lastGeneratedCode = GeneratedCode(c.outputFormat, text),
                       !.outputArea = GeneratedCode(c.outputFormat, text),
                       !.status = "success"]

InitConverter ==
    /\ ModelIdle
    /\ libraries = Null
    /\ converter = [inputArea |-> EmptyText, outputArea |-> Placeholder,
                    outputFormat |-> "go", lastParsedData |-> Null,
                    lastGeneratedCode |-> EmptyCode, status |-> "ready",
                    delivered |-> EmptyCode, op |-> "init"]
    /\ diffPage = Null
    /\ markdown = Null
    /\ debouncer = Null
    /\ lightbox = Null
    /\ exporter = Null
    /\ formatter = Null

converterFrame == << modelVars, libraries, diffPage, markdown, debouncer, lightbox,
                     exporter, formatter >>

\* the user replaces the text of the input editor
EditInput ==
    /\ \E text \in ConverterTexts \cup {EmptyText} :
          /\ text # converter.inputArea
          /\ converter' = [converter EXCEPT !.inputArea = text, !.op = "edit"]
    /\ UNCHANGED converterFrame

\* click on the convert button
HandleConvert ==
    /\ converter' = [handleConvert(converter) EXCEPT !.op = "convert"]
    /\ UNCHANGED converterFrame

\* click on another output format: handleOutputFormatChange
HandleOutputFormatChange ==
    /\ \E format \in OutputFormats \ {converter.outputFormat} :
          LET c == [converter EXCEPT !.outputFormat = format]
          IN  converter' = [(IF c.lastParsedData # Null THEN handleConvert(c) ELSE c)
                                EXCEPT !.op = "format"]
    /\ UNCHANGED converterFrame

\* handleInlineNestedChange, handleProtoNestedModeChange
HandleOptionChange ==
    /\ converter.lastParsedData # Null
    /\ converter' = [handleConvert(converter) EXCEPT !.op = "option"]
    /\ UNCHANGED converterFrame

\* handleSaveSettings: no conversion
HandleSaveSettings ==
    /\ converter' = [converter EXCEPT !.status = "success", !.op = "settings"]
    /\ UNCHANGED converterFrame

HandleClear ==
    /\ converter' = [converter EXCEPT !.inputArea = EmptyText,
                                      !.outputArea = Placeholder,
                                      !.lastParsedData = Null,
                                      !.lastGeneratedCode = EmptyCode,
                                      !.status = "ready", !.op = "clear"]
    /\ UNCHANGED converterFrame

\* navigator.clipboard.writeText(lastGeneratedCode)
HandleCopy ==
    /\ converter' = IF converter.lastGeneratedCode = EmptyCode
                    THEN [converter EXCEPT !.status = "error", !.op = "copy"]
                    ELSE [converter EXCEPT !.delivered = converter.lastGeneratedCode,
                                           !.status = "success", !.op = "copy"]
    /\ UNCHANGED converterFrame

\* the file handleExport writes holds lastGeneratedCode
HandleExport ==
    /\ converter' = IF converter.lastGeneratedCode = EmptyCode
                       \/ converter.lastParsedData = Null
                    THEN [converter EXCEPT !.status = "error", !.op = "export"]
                    ELSE [converter EXCEPT !.delivered = converter.lastGeneratedCode,
                                           !.status = "success", !.op = "export"]
    /\ UNCHANGED converterFrame

NextConverter ==
    \/ EditInput
    \/ HandleConvert
    \/ HandleOutputFormatChange
    \/ HandleOptionChange
    \/ HandleSaveSettings
    \/ HandleClear
    \/ HandleCopy
    \/ HandleExport

SpecConverter == InitConverter /\ [][NextConverter]_vars

\* ------------------------------------------------------------------------
\* C22: a conversion to Protocol Buffer of an input of a SQL dialect shows
\* only the error message in the output editor and changes neither
\* lastParsedData nor lastGeneratedCode.
\* ------------------------------------------------------------------------
ProtoOfSQLChangesNothing ==
    [][(/\ converter'.op = "convert"
        /\ converter.outputFormat = "proto"
        /\ converter.inputArea.type \in SQLDialects
        /\ converter.inputArea.valid)
       => /\ converter'.outputArea = ErrorText("Protocol Buffer needs JSON/YAML/TOML/XML")
          /\ converter'.lastParsedData = converter.lastParsedData
          /\ converter'.lastGeneratedCode = converter.lastGeneratedCode]_vars

\* ------------------------------------------------------------------------
\* C24: whenever lastGeneratedCode is not empty it is the text the output
\* editor shows, so handleCopy and handleExport never deliver the output of
\* an earlier conversion after a conversion failed.
\* ------------------------------------------------------------------------
LastGeneratedCodeIsShown ==
    converter.lastGeneratedCode # EmptyCode
        => converter.lastGeneratedCode = converter.outputArea

\* ------------------------------------------------------------------------
\* The diff page: handleDiff, handleCopyDiff
\* ------------------------------------------------------------------------
\* the texts an editor of the diff page can hold
DiffEditorTexts == DDLs \ { OtherArg("null"), OtherArg("number") }

\* ddl.trim() is ''
TrimsToEmpty(ddl) == ddl.kind \in {"empty", "blank"}

\* '-- 在左侧分别输入新旧 DDL\n-- 将自动生成 ALTER 语句'
DiffPlaceholder ==
    << CommentLine("enter both DDLs", "", ""), CommentLine("ALTER is generated", "", "") >>

\* the first characters of the text of a statement
StatementStart(statement) == IF statement.kind = "comment" THEN "--" ELSE "ALTER TABLE"

\* statements.join('\n').startsWith('--')
TextStartsWithDashes(lines) == Len(lines) > 0 /\ StatementStart(lines[1]) = "--"

\* the refusal of handleCopyDiff: !text || text.startsWith('--')
RefusesToCopy(text) == Len(text) = 0 \/ TextStartsWithDashes(text)

InitDiffPage ==
    /\ targetDDL \in DiffEditorTexts
    /\ sourceDDL \in DiffEditorTexts
    /\ pc = "ready"
    /\ EngineInit
    /\ NoProto
    /\ DetectIdle
    /\ MapperIdle
    /\ ConfigIdle
    /\ libraries = Null
    /\ converter = Null
    /\ diffPage = [diffOutputArea |-> DiffPlaceholder, clipboard |-> << >>,
                   copied |-> FALSE]
    /\ markdown = Null
    /\ debouncer = Null
    /\ lightbox = Null
    /\ exporter = Null
    /\ formatter = Null

diffPageFrame == << jsonInput, protoParsedData, protoCode, protoOptions, detectVars,
                    mapperVars, configVars, libraries, converter, markdown, debouncer,
                    lightbox, exporter, formatter >>

\* handleDiff with both editors empty
HandleDiffEmpty ==
    /\ pc = "ready"
    /\ TrimsToEmpty(targetDDL) /\ TrimsToEmpty(sourceDDL)
    /\ diffPage' = [diffPage EXCEPT !.diffOutputArea = DiffPlaceholder]
    /\ pc' = "diff_shown"
    /\ UNCHANGED << diffVars, parserReturned, schemaObjects, diffPageFrame >>

\* handleDiff: statements = diffEngine.generateDiff(targetDDL, sourceDDL)
HandleDiff ==
    /\ pc = "ready"
    /\ ~(TrimsToEmpty(targetDDL) /\ TrimsToEmpty(sourceDDL))
    /\ RunGenerateDiff(targetDDL, sourceDDL)
    /\ diffPage' = [diffPage EXCEPT
            !.diffOutputArea = generateDiff(heap, statements, targetDDL, sourceDDL).heap[
                                 generateDiff(heap, statements, targetDDL, sourceDDL).ref]]
    /\ pc' = "diff_shown"
    /\ UNCHANGED << targetDDL, sourceDDL, diffPageFrame >>

HandleCopyDiff ==
    /\ pc = "diff_shown"
    /\ diffPage' = IF RefusesToCopy(diffPage.diffOutputArea) THEN diffPage
                   ELSE [diffPage EXCEPT !.clipboard = diffPage.diffOutputArea,
                                         !.copied = TRUE]
    /\ pc' = "copy_done"
    /\ UNCHANGED << diffVars, parserReturned, schemaObjects, diffPageFrame >>

NextDiffPage == HandleDiffEmpty \/ HandleDiff \/ HandleCopyDiff

SpecDiffPage == InitDiffPage /\ [][NextDiffPage]_vars

\* ------------------------------------------------------------------------
\* C23: when the diff output holds at least one ALTER statement,
\* handleCopyDiff writes it to the clipboard, also for tables whose names
\* differ; it refuses only an output of comment lines alone.
\* ------------------------------------------------------------------------
CopiesEveryAlterOutput ==
    pc = "copy_done"
        => (diffPage.copied <=>
              \E i \in 1..Len(diffPage.diffOutputArea) :
                  diffPage.diffOutputArea[i].kind # "comment")

\* ------------------------------------------------------------------------
\* The Markdown page: handleMarkdownRender, MarkdownRenderer.render
\* ------------------------------------------------------------------------
\* A Markdown text by its name and the number of its mermaid code blocks;
\* EmptyMarkdown is a text whose trim() is ''
EmptyMarkdown == [name |-> "", blocks |-> 0]

MarkdownTexts ==
    { [name |-> n, blocks |-> b] : n \in {"a", "b"}, b \in 0..MaxMermaidBlocks }
      \cup { EmptyMarkdown }

\* the HTML MarkdownRenderer.render resolves to for the text; for
\* EmptyMarkdown the placeholder paragraph (preview) and '' (lastRenderedHtml)
HtmlOf(text) == [of |-> text]

InitMarkdown ==
    /\ ModelIdle
    /\ libraries = Null
    /\ converter = Null
    /\ diffPage = Null
    /\ markdown \in [ markdownInput : MarkdownTexts, inFlight : { {} }, started : {0},
                      latest : { EmptyMarkdown }, preview : { HtmlOf(EmptyMarkdown) },
                      lastRenderedHtml : { HtmlOf(EmptyMarkdown) } ]
    /\ debouncer = Null
    /\ lightbox = Null
    /\ exporter = Null
    /\ formatter = Null

markdownFrame == << modelVars, libraries, converter, diffPage, debouncer, lightbox,
                    exporter, formatter >>

\* the user replaces the text of the Markdown editor
EditMarkdown ==
    /\ \E text \in MarkdownTexts \ { markdown.markdownInput } :
          markdown' = [markdown EXCEPT !.markdownInput = text]
    /\ UNCHANGED markdownFrame

\* handleMarkdownRender up to its first await of a Mermaid render; a text
\* without mermaid blocks is rendered with no such await
StartMarkdownRender ==
    /\ markdown.started < MaxRenders
    /\ LET text == markdown.markdownInput
           begun == [markdown EXCEPT !.started = @ + 1, !.latest = text]
       IN  markdown' =
             IF text.blocks = 0
             THEN [begun EXCEPT !.preview = HtmlOf(text),
                                !.lastRenderedHtml = HtmlOf(text)]
             ELSE [begun EXCEPT !.inFlight = @ \cup
                        { [seq |-> markdown.started + 1, input |-> text,
                           awaiting |-> text.blocks] }]
    /\ UNCHANGED markdownFrame

\* await this.renderMermaid(mermaidCode, i) resolves or rejects; after the
\* last block render returns and handleMarkdownRender assigns its html
MermaidSettles ==
    /\ \E r \in markdown.inFlight :
          markdown' =
            IF r.awaiting > 1
            THEN [markdown EXCEPT !.inFlight =
                     (@ \ {r}) \cup { [r EXCEPT !.awaiting = @ - 1] }]
            ELSE [markdown EXCEPT !.inFlight = @ \ {r},
                                  !.preview = HtmlOf(r.input),
                                  !.lastRenderedHtml = HtmlOf(r.input)]
    /\ UNCHANGED markdownFrame

NextMarkdown == EditMarkdown \/ StartMarkdownRender \/ MermaidSettles

SpecMarkdown == InitMarkdown /\ [][NextMarkdown]_vars

\* ------------------------------------------------------------------------
\* C25: once no render is awaiting, the preview and lastRenderedHtml hold
\* the render of the input of the render that started last: a render that
\* started earlier never overwrites the result of a later one.
\* ------------------------------------------------------------------------
LatestRenderIsShown ==
    (markdown.started > 0 /\ markdown.inFlight = {})
        => /\ markdown.preview = HtmlOf(markdown.latest)
           /\ markdown.lastRenderedHtml = HtmlOf(markdown.latest)

\* ------------------------------------------------------------------------
\* debounce(func, wait) and HistoryManager.debounce
\* ------------------------------------------------------------------------
\* clearTimeout(id) on the pending timers
clearTimeout(timers, id) == { t \in timers : t.id # id }

\* executedFunction that sets a timer without clearing the pending one
executedFunctionKeepingTimer(d, args) ==
    [d EXCEPT !.timers = @ \cup { [id |-> d.nextId, due |-> d.now + Wait, args |-> args] },
              !.timeout = d.nextId,
              !.nextId = @ + 1,
              !.calls = Append(@, [at |-> d.now, args |-> args])]

\* executedFunction(...args): clearTimeout(timeout); timeout = setTimeout(later, wait)
executedFunction(d, args) ==
    [d EXCEPT !.timers = clearTimeout(@, d.timeout)
                            \cup { [id |-> d.nextId, due |-> d.now + Wait, args |-> args] },
              !.timeout = d.nextId,
              !.nextId = @ + 1,
              !.calls = Append(@, [at |-> d.now, args |-> args])]

\* later() of the timer t: clearTimeout(timeout); func(...args)
later(d, t) ==
    [d EXCEPT !.timers = clearTimeout(@ \ {t}, d.timeout),
              !.runs = Append(@, [at |-> d.now, args |-> t.args])]

\* a timer is due now
TimerDue(d) == \E t \in d.timers : t.due <= d.now

InitDebounce ==
    /\ ModelIdle
    /\ libraries = Null
    /\ converter = Null
    /\ diffPage = Null
    /\ markdown = Null
    /\ debouncer = [now |-> 0, timeout |-> 0, timers |-> {}, nextId |-> 1,
                    calls |-> << >>, runs |-> << >>]
    /\ lightbox = Null
    /\ exporter = Null
    /\ formatter = Null

debounceFrame == << modelVars, libraries, converter, diffPage, markdown, lightbox,
                    exporter, formatter >>

\* a call of the debounced function; a timer that is due fires first
DebouncedCall ==
    /\ ~TimerDue(debouncer)
    /\ Len(debouncer.calls) < MaxDebounceCalls
    /\ \E args \in {"x", "y"} : debouncer' = executedFunction(debouncer, args)
    /\ UNCHANGED debounceFrame

\* a timer fires when it is due
TimerFires ==
    /\ \E t \in debouncer.timers :
          /\ t.due <= debouncer.now
          /\ debouncer' = later(debouncer, t)
    /\ UNCHANGED debounceFrame

\* the clock advances while no timer is due
Tick ==
    /\ ~TimerDue(debouncer)
    /\ debouncer.now < MaxTime
    /\ debouncer' = [debouncer EXCEPT !.now = @ + 1]
    /\ UNCHANGED debounceFrame

NextDebounce == DebouncedCall \/ TimerFires \/ Tick

SpecDebounce == InitDebounce /\ [][NextDebounce]_vars

\* the calls that end a burst: no call follows less than Wait later
BurstEnds ==
    { i \in 1..Len(debouncer.calls) :
        i = Len(debouncer.calls)
          \/ debouncer.calls[i + 1].at - debouncer.calls[i].at >= Wait }

\* the runs of func at the time given
RunsAt(time) == { k \in 1..Len(debouncer.runs) : debouncer.runs[k].at = time }

One == 1000

minScale == 100

maxScale == 5000

Min2(a, b) == IF a <= b THEN a ELSE b

Max2(a, b) == IF a >= b THEN a ELSE b

\* the factors zoom is called with: 1.25, 0.8 (buttons, keys), 1.1, 0.9 (wheel)
ZoomFactors == { << 5, 4 >>, << 4, 5 >>, << 11, 10 >>, << 9, 10 >> }

\* img.scrollWidth and img.scrollHeight of the diagrams (0: not laid out)
ImageSizes == { [w |-> 400, h |-> 300], [w |-> 4000, h |-> 600], [w |-> 0, h |-> 0] }

\* this.content.getBoundingClientRect()
WindowSizes == { [w |-> 1280, h |-> 720], [w |-> 400, h |-> 300] }

\* imageWrapper.innerHTML = ''
NoContent == [w |-> 0, h |-> 0, empty |-> TRUE]

ContentOf(image) == [w |-> image.w, h |-> image.h, empty |-> FALSE]

\* zoom(factor, centerX, centerY); moves: the zoom is towards a mouse
\* position off the centre
zoom(l, factor, moves) ==
    LET newScale == Max2(minScale, Min2(maxScale, (l.scale * factor[1]) \div factor[2]))
    IN  [l EXCEPT !.scale = newScale,
                  !.panned = IF moves /\ newScale # l.scale THEN TRUE ELSE @]

resetZoom(l) == [l EXCEPT !.scale = One, !.panned = FALSE]

\* fitToWindow()
fitToWindow(l) ==
    IF l.content.empty THEN l
    ELSE LET imgWidth == IF l.content.w # 0 THEN l.content.w ELSE 800
             imgHeight == IF l.content.h # 0 THEN l.content.h ELSE 600
             scaleX == ((l.window.w - 48) * One) \div imgWidth
             scaleY == ((l.window.h - 48) * One) \div imgHeight
         IN  [l EXCEPT !.scale = Min2(Min2(scaleX, scaleY), One), !.panned = FALSE]

\* open(content, 'svg')
open(l, image) ==
    [l EXCEPT !.scale = One, !.panned = FALSE, !.content = ContentOf(image),
              !.isOpen = TRUE]

\* the timer of close that clears whatever the lightbox shows
cleanUpUnguarded(l) == resetZoom([l EXCEPT !.content = NoContent])

\* the timer of close: if (!this.isOpen) { innerHTML = ''; this.resetZoom() }
cleanUp(l) == IF ~l.isOpen THEN resetZoom([l EXCEPT !.content = NoContent]) ELSE l

\* the timer of openMermaid: fit when the diagram is larger than the content
fitIfLarger(l) ==
    IF l.content.empty THEN l
    ELSE IF (l.content.w * l.scale) \div One > l.window.w
            \/ (l.content.h * l.scale) \div One > l.window.h
         THEN fitToWindow(l)
         ELSE l

InitLightbox ==
    /\ ModelIdle
    /\ libraries = Null
    /\ converter = Null
    /\ diffPage = Null
    /\ markdown = Null
    /\ debouncer = Null
    /\ lightbox \in [ isOpen : {FALSE}, scale : {One}, panned : {FALSE},
                      content : {NoContent}, window : WindowSizes,
                      cleanUpTimers : {0}, fitTimers : {0}, zooms : {0},
                      lastCleanUp : {"none"} ]
    /\ exporter = Null
    /\ formatter = Null

lightboxFrame == << modelVars, libraries, converter, diffPage, markdown, debouncer,
                    exporter, formatter >>

\* click on the zoom button of a diagram: openMermaid(container)
OpenMermaid ==
    /\ lightbox.fitTimers < MaxPendingTimers
    /\ \E image \in ImageSizes :
          lightbox' = [open(lightbox, image) EXCEPT !.fitTimers = @ + 1]
    /\ UNCHANGED lightboxFrame

\* zoom buttons, keys and the mouse wheel
Zoom ==
    /\ lightbox.zooms < MaxZooms
    /\ \E factor \in ZoomFactors, moves \in BOOLEAN :
          /\ moves => factor \in { << 11, 10 >>, << 9, 10 >> }
          /\ lightbox' = [zoom(lightbox, factor, moves) EXCEPT !.zooms = @ + 1]
    /\ UNCHANGED lightboxFrame

ResetZoom ==
    /\ lightbox' = resetZoom(lightbox)
    /\ UNCHANGED lightboxFrame

FitToWindow ==
    /\ lightbox' = fitToWindow(lightbox)
    /\ UNCHANGED lightboxFrame

\* close(): the close button, the overlay, Escape
Close ==
    /\ lightbox.isOpen
    /\ lightbox.cleanUpTimers < MaxPendingTimers
    /\ lightbox' = [lightbox EXCEPT !.isOpen = FALSE, !.cleanUpTimers = @ + 1]
    /\ UNCHANGED lightboxFrame

\* the 300 ms timer of close fires
CleanUpTimerFires ==
    /\ lightbox.cleanUpTimers > 0
    /\ lightbox' = [cleanUp(lightbox) EXCEPT
            !.cleanUpTimers = @ - 1,
            !.lastCleanUp = IF lightbox.isOpen THEN "open" ELSE "closed"]
    /\ UNCHANGED lightboxFrame

\* the 50 ms timer of openMermaid fires
FitTimerFires ==
    /\ lightbox.fitTimers > 0
    /\ lightbox' = [fitIfLarger(lightbox) EXCEPT !.fitTimers = @ - 1]
    /\ UNCHANGED lightboxFrame

NextLightbox ==
    \/ OpenMermaid
    \/ Zoom
    \/ ResetZoom
    \/ FitToWindow
    \/ Close
    \/ CleanUpTimerFires
    \/ FitTimerFires

SpecLightbox == InitLightbox /\ [][NextLightbox]_vars

\* ------------------------------------------------------------------------
\* C27: a clean-up timer of close that fires while the lightbox is open
\* (closed and opened again in between) leaves the content and the zoom
\* alone; a timer clears the content only when the lightbox is closed at
\* the moment it fires.
\* ------------------------------------------------------------------------
CleanUpOnlyWhenClosed ==
    [][lightbox'.cleanUpTimers < lightbox.cleanUpTimers
         => IF lightbox.isOpen
            THEN /\ lightbox'.content = lightbox.content
                 /\ lightbox'.scale = lightbox.scale
                 /\ lightbox'.panned = lightbox.panned
                 /\ lightbox'.isOpen
            ELSE /\ lightbox'.content = NoContent
                 /\ lightbox'.scale = One]_vars

\* a clean-up timer fired on a lightbox opened again and zoomed
CleanUpWhileOpenWitness ==
    /\ lightbox.lastCleanUp = "open"
    /\ lightbox.isOpen
    /\ ~lightbox.content.empty
    /\ lightbox.scale # One
    /\ lightbox.cleanUpTimers = 0

\* ------------------------------------------------------------------------
\* C28: after any sequence of zoom, resetZoom, fitToWindow, open and close,
\* minScale <= scale <= maxScale for every image size and window size.
\* ------------------------------------------------------------------------
ScaleWithinBounds ==
    minScale <= lightbox.scale /\ lightbox.scale <= maxScale

\* ------------------------------------------------------------------------
\* MarkdownExporter: exportAsPNG, exportAsJPG, exportAsSVG
\* ------------------------------------------------------------------------
ExportFormats == { "png", "jpg", "svg" }

showLoading(e) == [e EXCEPT !.overlayVisible = TRUE]

hideLoading(e) == [e EXCEPT !.overlayVisible = FALSE]

\* the run ends: the promise of the export settles, or the toBlob callback returns
ExportEnds(e, threw) == [e EXCEPT !.at = "ended", !.threw = threw]

InitExporter ==
    /\ ModelIdle
    /\ libraries = Null
    /\ converter = Null
    /\ diffPage = Null
    /\ markdown = Null
    /\ debouncer = Null
    /\ lightbox = Null
    /\ exporter \in [ at : {"idle"}, format : {"png"}, html2canvas : BOOLEAN,
                      wrappers : {0}, overlayVisible : {FALSE}, threw : {FALSE},
                      runs : {0}, downloads : {0} ]
    /\ formatter = Null

exporterFrame == << modelVars, libraries, converter, diffPage, markdown, debouncer,
                    lightbox, formatter >>

\* exportAsPNG / exportAsJPG / exportAsSVG up to prepareForExport
ExportStarts ==
    /\ exporter.at \in {"idle", "ended"}
    /\ exporter.runs < MaxExports
    /\ \E format \in ExportFormats :
          LET e == [exporter EXCEPT !.format = format, !.runs = @ + 1, !.threw = FALSE]
          IN  exporter' =
                IF format = "svg"
                THEN IF e.html2canvas THEN [showLoading(e) EXCEPT !.at = "preparing"]
                     ELSE ExportEnds(hideLoading(showLoading(e)), TRUE)
                ELSE IF e.html2canvas THEN [showLoading(e) EXCEPT !.at = "preparing"]
                     ELSE ExportEnds(e, TRUE)
    /\ UNCHANGED exporterFrame

\* prepareForExport: document.body.appendChild(wrapper), then 200 ms
PrepareForExport ==
    /\ exporter.at = "preparing"
    /\ exporter' = [exporter EXCEPT !.wrappers = @ + 1, !.at = "rendering"]
    /\ UNCHANGED exporterFrame

\* await html2canvas(wrapper, ...) resolves
Html2CanvasResolves ==
    /\ exporter.at = "rendering"
    /\ LET removed == [exporter EXCEPT !.wrappers = @ - 1]
       IN  exporter' =
             IF exporter.format = "svg"
             THEN \* canvas.toDataURL returns
                  ExportEnds(hideLoading([removed EXCEPT !.downloads = @ + 1]), FALSE)
             ELSE [removed EXCEPT !.at = "toBlob"]
    /\ UNCHANGED exporterFrame

\* canvas.toDataURL throws (exportAsSVG)
ToDataURLThrows ==
    /\ exporter.at = "rendering"
    /\ exporter.format = "svg"
    /\ exporter' = ExportEnds(hideLoading([exporter EXCEPT !.wrappers = @ - 1]), TRUE)
    /\ UNCHANGED exporterFrame

\* await html2canvas(wrapper, ...) rejects: catch (error) { hideLoading(); throw }
Html2CanvasRejects ==
    /\ exporter.at = "rendering"
    /\ exporter' = ExportEnds(hideLoading(exporter), TRUE)
    /\ UNCHANGED exporterFrame

\* the callback of canvas.toBlob runs, with a blob or with null
ToBlobCallback ==
    /\ exporter.at = "toBlob"
    /\ \E blob \in BOOLEAN :
          exporter' = IF blob
                      THEN ExportEnds(hideLoading([exporter EXCEPT !.downloads = @ + 1]),
                                      FALSE)
                      ELSE ExportEnds(hideLoading(exporter), TRUE)
    /\ UNCHANGED exporterFrame

NextExporter ==
    \/ ExportStarts
    \/ PrepareForExport
    \/ Html2CanvasResolves
    \/ ToDataURLThrows
    \/ Html2CanvasRejects
    \/ ToBlobCallback

SpecExporter == InitExporter /\ [][NextExporter]_vars

\* ------------------------------------------------------------------------
\* C29: every run of an export, whether it succeeds or html2canvas fails,
\* ends with the wrapper of prepareForExport removed from the document and
\* the loading overlay hidden.
\* ------------------------------------------------------------------------
ExportLeavesNothingBehind ==
    exporter.at = "ended" => exporter.wrappers = 0 /\ ~exporter.overlayVisible

\* ------------------------------------------------------------------------
\* autoFormatInput and its isFormatting flag
\* ------------------------------------------------------------------------
\* A text of the input editor: its detected type, whether it is at least 10
\* characters long trimmed, and what AutoFormatter.format makes of it:
\* "formatted" (format returns the text itself), "unformatted" (format
\* returns another text with the same non-blank characters), "invalid"
\* (format throws)
FormatTexts ==
    [ type : {"json", "mysql", "postgresql", "sqlite", "yaml", "unknown"},
      long : BOOLEAN,
      shape : {"formatted", "unformatted", "invalid"} ]

\* AutoFormatter.format(input, inputType, options) of a text it accepts
Formatted(text) == [text EXCEPT !.shape = "formatted"]

\* autoFormatInput(); setValueThrows: editorManager.setValue throws
autoFormatInput(f, setValueThrows) ==
    IF f.autoFormat = "never" \/ f.isFormatting THEN f
    ELSE IF ~f.inputArea.long THEN f
    ELSE IF f.inputArea.type \notin {"json", "mysql", "postgresql", "sqlite"} THEN f
    ELSE IF f.inputArea.shape # "unformatted" THEN f
    ELSE IF setValueThrows
         THEN [f EXCEPT !.isFormatting = TRUE]
         ELSE [f EXCEPT !.isFormatting = TRUE,
                        !.inputArea = Formatted(f.inputArea),
                        !.resetTimers = @ + 1]

InitFormatter ==
    /\ ModelIdle
    /\ libraries = Null
    /\ converter = Null
    /\ diffPage = Null
    /\ markdown = Null
    /\ debouncer = Null
    /\ lightbox = Null
    /\ exporter = Null
    /\ formatter \in [ inputArea : FormatTexts, autoFormat : {"never", "paste", "always"},
                       isFormatting : {FALSE}, resetTimers : {0} ]

formatterFrame == << modelVars, libraries, converter, diffPage, markdown, debouncer,
                     lightbox, exporter >>

\* the user types or pastes another text
EditFormatInput ==
    /\ \E text \in FormatTexts \ { formatter.inputArea } :
          formatter' = [formatter EXCEPT !.inputArea = text]
    /\ UNCHANGED formatterFrame

\* handleSaveSettings: currentSettings.autoFormat
ChangeAutoFormat ==
    /\ \E mode \in {"never", "paste", "always"} \ { formatter.autoFormat } :
          formatter' = [formatter EXCEPT !.autoFormat = mode]
    /\ UNCHANGED formatterFrame

\* debouncedAutoFormat or the paste timer calls autoFormatInput
AutoFormatInput ==
    /\ \E setValueThrows \in BOOLEAN :
          formatter' = autoFormatInput(formatter, setValueThrows)
    /\ UNCHANGED formatterFrame

\* setTimeout(() => { isFormatting = false; }, 100) fires
ResetTimerFires ==
    /\ formatter.resetTimers > 0
    /\ formatter' = [formatter EXCEPT !.isFormatting = FALSE, !.resetTimers = @ - 1]
    /\ UNCHANGED formatterFrame

NextFormatter == EditFormatInput \/ ChangeAutoFormat \/ AutoFormatInput \/ ResetTimerFires

\* a timer that is set fires
SpecFormatter ==
    InitFormatter /\ [][NextFormatter]_vars /\ WF_vars(ResetTimerFires)

\* ------------------------------------------------------------------------
\* C30: whenever autoFormatInput sets isFormatting, the flag returns to
\* false later on every path, also when rewriting the editor fails.
\* ------------------------------------------------------------------------
FormattingEventuallyEnds ==
    formatter.isFormatting ~> ~formatter.isFormatting

====
